---- MODULE Spec2Model ----
(***************************************************************************)
(* Model of scripts/publish/publish-event.go: the event publisher of       *)
(* forrostrasbourg.fr.  The state is the working tree (template files,     *)
(* content/evenements), the git index and last commit, and the position    *)
(* and locals of the one call in progress (publishEventMarkdown, entered   *)
(* directly or from publishEvent).  Files are sequences of lines; errors   *)
(* are the chain of wrapped messages, <<>> being nil.                      *)
(***************************************************************************)
EXTENDS Integers, Sequences, FiniteSets, TLC

\* ------------------------------------------------------------------ bounds
MaxCalls == 2
MaxRuns == 3
MaxEdits == 1
MaxOps == 6
MaxFileLen == 5

\* ------------------------------------------------------------------- lines
\* a line: what it says, and the white space in front of it
Line(kind, key, val) == [kind |-> kind, key |-> key, val |-> val, indent |-> 0]
Indented(line, n) == [line EXCEPT !.indent = n]
\* strings.TrimSpace(line)
TrimSpace(line) == [line EXCEPT !.indent = 0]
Delim == Line("delim", "", "---")
KV(k, v) == Line("kv", k, v)
Action(field) == Line("action", field, "")
Text(s) == Line("text", "", s)

NoFile == [exists |-> FALSE, lines |-> <<>>]
File(ls) == [exists |-> TRUE, lines |-> ls]

NoError == <<>>
Wrap(msg, err) == <<msg>> \o err

\* ------------------------------------------------------- date and locale
Pad2(n) == IF n < 10 THEN "0" \o ToString(n) ELSE ToString(n)

\* parsedDate.Format("060102")
FormatYYMMDD(d) == Pad2(d.y % 100) \o Pad2(d.m) \o Pad2(d.d)

\* ctx.Date.Format("2006-01-02")
FormatISO(d) == ToString(d.y) \o "-" \o Pad2(d.m) \o "-" \o Pad2(d.d)

\* a date string as the tests of publishEventMarkdown pass it: "23/12/2024"
FormatDMY(d) == Pad2(d.d) \o "/" \o Pad2(d.m) \o "/" \o ToString(d.y)

\* time.Time.Weekday(): 0 = Sunday
Weekday(d) ==
    LET t == <<0, 3, 2, 5, 0, 3, 5, 1, 4, 6, 2, 4>>
        yy == IF d.m < 3 THEN d.y - 1 ELSE d.y
    IN  (yy + (yy \div 4) - (yy \div 100) + (yy \div 400) + t[d.m] + d.d) % 7

\* variant: French for every language code but "en"
getWeekdayNameFrenchUnlessEnglish(d, lang) ==
    LET weekdays ==
          IF lang = "en"
          THEN <<"sunday", "monday", "tuesday", "wednesday", "thursday", "friday", "saturday">>
          ELSE <<"dimanche", "lundi", "mardi", "mercredi", "jeudi", "vendredi", "samedi">>
    IN  weekdays[Weekday(d) + 1]

\* lines 80-90: the French table for "fr", the English one by default
getWeekdayName(d, lang) ==
    LET weekdays ==
          IF lang = "fr"
          THEN <<"dimanche", "lundi", "mardi", "mercredi", "jeudi", "vendredi", "samedi">>
          ELSE <<"sunday", "monday", "tuesday", "wednesday", "thursday", "friday", "saturday">>
    IN  weekdays[Weekday(d) + 1]

getMonthName(d, lang) ==
    LET months ==
          IF lang = "fr"
          THEN <<"janvier", "février", "mars", "avril", "mai", "juin", "juillet",
                 "août", "septembre", "octobre", "novembre", "décembre">>
          ELSE <<"january", "february", "march", "april", "may", "june", "july",
                 "august", "september", "october", "november", "december">>
    IN  months[d.m]

\* A Go string is a sequence of bytes, the UTF-8 encoding of its characters.
\* The ASCII letters, in the order of their code points:
LowerCase ==
    <<"a", "b", "c", "d", "e", "f", "g", "h", "i", "j", "k", "l", "m",
      "n", "o", "p", "q", "r", "s", "t", "u", "v", "w", "x", "y", "z">>
UpperCase ==
    <<"A", "B", "C", "D", "E", "F", "G", "H", "I", "J", "K", "L", "M",
      "N", "O", "P", "Q", "R", "S", "T", "U", "V", "W", "X", "Y", "Z">>

\* the code point of a character of a string literal
CodePoint(ch) ==
    IF \E i \in 1..26 : LowerCase[i] = ch
    THEN 96 + (CHOOSE i \in 1..26 : LowerCase[i] = ch)
    ELSE IF \E i \in 1..26 : UpperCase[i] = ch
    THEN 64 + (CHOOSE i \in 1..26 : UpperCase[i] = ch)
    ELSE CASE ch = " " -> 32
           [] ch = "é" -> 233
           [] ch = "É" -> 201
           [] ch = "€" -> 8364
           [] OTHER -> 63

\* string(r): the UTF-8 encoding of one code point
EncodeRune(r) ==
    IF r < 128 THEN <<r>>
    ELSE IF r < 2048 THEN <<192 + (r \div 64), 128 + (r % 64)>>
    ELSE <<224 + (r \div 4096), 128 + ((r \div 64) % 64), 128 + (r % 64)>>

\* the bytes of a string literal, given as its characters
RECURSIVE Utf8(_)
Utf8(chars) ==
    IF chars = <<>> THEN <<>> ELSE EncodeRune(CodePoint(Head(chars))) \o Utf8(Tail(chars))

\* unicode.ToUpper on a code point below 256, which is all string(s[0]) can hold
ToUpperRune(r) ==
    IF (r >= 97 /\ r <= 122) \/ (r >= 224 /\ r <= 254 /\ r # 247) THEN r - 32
    ELSE IF r = 181 THEN 924
    ELSE IF r = 255 THEN 376
    ELSE r

\* variant: every ASCII letter is upper-cased
capitalizeEveryLetter(s) ==
    IF s = <<>> THEN s
    ELSE [i \in 1..Len(s) |-> IF s[i] >= 97 /\ s[i] <= 122 THEN s[i] - 32 ELSE s[i]]

\* strings.ToUpper(string(s[0])) + s[1:]: s[0] is the first byte, string(s[0])
\* the one-character string of the code point with that byte's value
capitalizeFirstLetter(s) ==
    IF s = <<>> THEN s ELSE EncodeRune(ToUpperRune(s[1])) \o Tail(s)

\* the weekday names of both tables, as their characters
Spelled(name) ==
    CASE name = "dimanche" -> <<"d", "i", "m", "a", "n", "c", "h", "e">>
      [] name = "lundi" -> <<"l", "u", "n", "d", "i">>
      [] name = "mardi" -> <<"m", "a", "r", "d", "i">>
      [] name = "mercredi" -> <<"m", "e", "r", "c", "r", "e", "d", "i">>
      [] name = "jeudi" -> <<"j", "e", "u", "d", "i">>
      [] name = "vendredi" -> <<"v", "e", "n", "d", "r", "e", "d", "i">>
      [] name = "samedi" -> <<"s", "a", "m", "e", "d", "i">>
      [] name = "sunday" -> <<"s", "u", "n", "d", "a", "y">>
      [] name = "monday" -> <<"m", "o", "n", "d", "a", "y">>
      [] name = "tuesday" -> <<"t", "u", "e", "s", "d", "a", "y">>
      [] name = "wednesday" -> <<"w", "e", "d", "n", "e", "s", "d", "a", "y">>
      [] name = "thursday" -> <<"t", "h", "u", "r", "s", "d", "a", "y">>
      [] name = "friday" -> <<"f", "r", "i", "d", "a", "y">>
      [] name = "saturday" -> <<"s", "a", "t", "u", "r", "d", "a", "y">>
      [] OTHER -> <<>>

\* the text of a string of ASCII letters
RECURSIVE StringOf(_)
StringOf(bytes) ==
    IF bytes = <<>> THEN ""
    ELSE LET b == Head(bytes)
             ch == IF b >= 97 /\ b <= 122 THEN LowerCase[b - 96]
                   ELSE IF b >= 65 /\ b <= 90 THEN UpperCase[b - 64]
                   ELSE IF b = 32 THEN " " ELSE "?"
         IN  ch \o StringOf(Tail(bytes))

\* EventData built by publishEventMarkdown
EventDataOf(d, dateStr, lang) ==
    LET weekdayLower == getWeekdayName(d, lang)
        monthLower == getMonthName(d, lang)
    IN  [Date |-> dateStr,
         LongDate |-> weekdayLower \o " " \o ToString(d.d) \o " " \o monthLower,
         LongDateCapitalized |->
             StringOf(capitalizeFirstLetter(Utf8(Spelled(weekdayLower)))) \o " " \o ToString(d.d) \o " " \o monthLower]

\* ---------------------------------------------------------------- requests
Dates == {[y |-> 2024, m |-> 12, d |-> 23]}
\* the dates of the repeated runs
RunDates == {[y |-> 2024, m |-> 12, d |-> 23], [y |-> 2025, m |-> 1, d |-> 7]}
Languages == {"fr", "en"}
Tokens == {"", "test-token"}

\* a template path: its directory and the dot-separated pieces of its file name
TplOkivu == [dir |-> "content/evenements/templates", file |-> <<"okivu", ".md", ".template">>]
TplMissing == [dir |-> "nonexistent", file |-> <<"template", ".md">>]
TemplatePaths == {TplOkivu, TplMissing}

\* more template paths: the flag's example, the same file name in another
\* directory, the names the tests use, and a name with ".md" twice
TplPachamamas ==
    [dir |-> "content/evenements/templates", file |-> <<"pachamamas", ".md", ".template">>]
TplOkivuElsewhere == [dir |-> "templates", file |-> <<"okivu", ".md", ".template">>]
TplTest == [dir |-> "tmp", file |-> <<"test", ".md", ".template">>]
TplTestTemplateMd == [dir |-> "tmp", file |-> <<"test", ".template", ".md">>]
TplDoubleMd == [dir |-> "templates", file |-> <<"stage", ".md", ".md", ".template">>]
NamedTemplates == {TplOkivu, TplPachamamas, TplOkivuElsewhere, TplTest, TplTestTemplateMd, TplDoubleMd}
\* the dates they are published for
NamedDates == {[y |-> 2024, m |-> 12, d |-> 23], [y |-> 2024, m |-> 11, d |-> 29],
               [y |-> 2005, m |-> 3, d |-> 9]}

\* FacebookPages strings, as the names and commas they are made of
PageSelections ==
    { <<>>,
      <<"all">>,
      <<"forro-a-strasbourg">>,
      <<"forro-stras", ",", "forro-a-strasbourg">>,
      <<"forro-a-strasbourg", ",", "unknown-page">>,
      <<"all", ",", "forro-stras">>,
      <<"unknown-page">> }

\* ------------------------------------------------------- template contents
TemplateV1 ==
    << Delim, KV("title", "Forro Okivu"), KV("place", "Okivu"), KV("city", "Strasbourg"),
       Delim, Action("Date"), Action("LongDate"), Action("LongDateCapitalized") >>
TemplateV2 ==
    << Delim, KV("title", "Forro Okivu!"), KV("place", "Okivu"), KV("city", "Strasbourg"),
       Delim, Action("Date"), Action("LongDate"), Action("LongDateCapitalized") >>
TemplateNoFM == << Text("No front matter"), Action("Date") >>
TemplateContents == {TemplateV1, TemplateV2, TemplateNoFM}
\* a template without actions
TemplatePlain ==
    << Delim, KV("title", "Test Event"), KV("place", "Test Place"), KV("city", "Test City"),
       Delim, Text("Event") >>
\* templates without actions, as a test may write them: the block after a
\* first line of text, indented, with a nested key, with a nested key named
\* like a field, with a second block further down, with the city nested
FrontMatterOfTest ==
    << KV("title", "Test Event"), KV("place", "Test Place"), KV("city", "Test City") >>
PlainTemplates ==
    { TemplatePlain,
      <<Text("Event")>> \o <<Delim>> \o FrontMatterOfTest \o <<Delim>>,
      <<Delim>> \o [i \in 1..3 |-> Indented(FrontMatterOfTest[i], 2)] \o <<Delim, Text("Event")>>,
      <<Delim>> \o FrontMatterOfTest \o <<KV("venue", ""), Indented(KV("room", "Salle 2"), 2), Delim>>,
      <<Delim, KV("title", "Test Event"), KV("venue", ""), Indented(KV("place", "Other Place"), 2),
        KV("place", "Test Place"), KV("city", "Test City"), Delim>>,
      <<Delim>> \o FrontMatterOfTest \o <<Delim, Text("Event"), Delim, KV("title", "Other Event"), Delim>>,
      <<Delim, KV("title", "Test Event"), KV("place", "Test Place"), KV("venue", ""),
        Indented(KV("city", "Colmar"), 2), Delim>> }
\* what the template files hold at the start
InitialTemplate(t) ==
    IF t = TplMissing THEN NoFile
    ELSE IF t \in {TplPachamamas, TplTestTemplateMd} THEN File(TemplatePlain)
    ELSE File(TemplateV1)

\* ------------------------------------------------------------ path helpers
\* filepath.Base
Base(templatePath) == templatePath.file

\* strings.TrimSuffix on a file name held as its pieces
TrimSuffix(name, suffix) ==
    IF Len(name) > 0 /\ name[Len(name)] = suffix
    THEN SubSeq(name, 1, Len(name) - 1)
    ELSE name

RECURSIVE Concat(_)
Concat(pieces) ==
    IF pieces = <<>> THEN "" ELSE Head(pieces) \o Concat(Tail(pieces))

\* variant: only ".template" is trimmed from the file name
BaseNameKeepingMd(templatePath) ==
    Concat(TrimSuffix(Base(templatePath), ".template"))

\* the base name: the template's file name without ".template", then ".md"
BaseName(templatePath) ==
    Concat(TrimSuffix(TrimSuffix(Base(templatePath), ".template"), ".md"))

OutputFilename(templatePath, d) ==
    FormatYYMMDD(d) \o "-" \o BaseName(templatePath) \o ".md"

OutputDir == "content/evenements"

\* filepath.Join(outputDir, outputFilename)
OutputPath(templatePath, d) == OutputDir \o "/" \o OutputFilename(templatePath, d)

\* strings.TrimSuffix(outputFilename, ".md") ends in ".md" by construction
EventSlug(templatePath, d) == FormatYYMMDD(d) \o "-" \o BaseName(templatePath)

EventURL(templatePath, d) ==
    "https://forrostrasbourg.fr/evenements/" \o EventSlug(templatePath, d) \o "/"

OutPaths ==
    {OutputPath(t, d) : t \in TemplatePaths, d \in Dates \cup RunDates}
        \cup {OutputPath(t, d) : t \in NamedTemplates, d \in NamedDates}

\* variant: the message names the trimmed base name
CommitMsgOfBaseName(templatePath, dateStr) ==
    "Add event for " \o dateStr \o " based on template " \o BaseName(templatePath)

\* "Add event for %s based on template %s"
CommitMsg(templatePath, dateStr) ==
    "Add event for " \o dateStr \o " based on template " \o Concat(Base(templatePath))

\* --------------------------------------------------------------- rendering
\* tmpl.Execute(outFile, data): every action is replaced by the field it names
Render(lines, data) ==
    [i \in 1..Len(lines) |->
        IF lines[i].kind = "action" THEN Text(data[lines[i].key]) ELSE lines[i]]

\* ------------------------------------------------------------ front matter
ZeroFrontMatter == [Title |-> "", Place |-> "", City |-> ""]

\* variant: a delimiter line always toggles, so a later pair opens a block again
RECURSIVE ScanFrontMatterToggling(_, _, _)
ScanFrontMatterToggling(lines, inFrontMatter, frontMatterLines) ==
    IF lines = <<>> THEN frontMatterLines
    ELSE LET line == TrimSpace(Head(lines)) IN
         IF line = Delim
         THEN ScanFrontMatterToggling(Tail(lines), ~inFrontMatter, frontMatterLines)
         ELSE IF inFrontMatter
              THEN ScanFrontMatterToggling(Tail(lines), TRUE, Append(frontMatterLines, line))
              ELSE ScanFrontMatterToggling(Tail(lines), FALSE, frontMatterLines)

\* the scan of extractFrontMatter: the trimmed lines between the first
\* delimiter and the second one (or the end of the file)
RECURSIVE ScanFrontMatter(_, _, _)
ScanFrontMatter(lines, inFrontMatter, frontMatterLines) ==
    IF lines = <<>> THEN frontMatterLines
    ELSE LET line == TrimSpace(Head(lines)) IN
         IF line = Delim
         THEN IF ~inFrontMatter
              THEN ScanFrontMatter(Tail(lines), TRUE, frontMatterLines)
              ELSE frontMatterLines
         ELSE IF inFrontMatter
              THEN ScanFrontMatter(Tail(lines), TRUE, Append(frontMatterLines, line))
              ELSE ScanFrontMatter(Tail(lines), FALSE, frontMatterLines)

\* strings.Join(frontMatterLines, "\n") == ""
EmptyJoin(frontMatterLines) ==
    \/ frontMatterLines = <<>>
    \/ Len(frontMatterLines) = 1 /\ frontMatterLines[1] = Text("")

\* yaml.Unmarshal into FrontMatterData: a mapping of key: value lines, no
\* key twice
YamlDecodes(frontMatterLines) ==
    /\ \A i \in 1..Len(frontMatterLines) :
          \/ frontMatterLines[i].kind = "kv"
          \/ frontMatterLines[i] = Text("")
    /\ \A i, j \in 1..Len(frontMatterLines) :
          (frontMatterLines[i].kind = "kv" /\ frontMatterLines[j].kind = "kv"
              /\ frontMatterLines[i].key = frontMatterLines[j].key) => i = j

\* variant: every field takes the value of the first key
YamlFieldOfFirstKey(frontMatterLines, key) ==
    IF \E i \in 1..Len(frontMatterLines) : frontMatterLines[i].kind = "kv"
    THEN LET i == CHOOSE j \in 1..Len(frontMatterLines) :
                      /\ frontMatterLines[j].kind = "kv"
                      /\ \A k \in 1..(j - 1) : frontMatterLines[k].kind # "kv"
         IN  frontMatterLines[i].val
    ELSE ""

\* the value decoded into the field tagged `key`
YamlField(frontMatterLines, key) ==
    IF \E i \in 1..Len(frontMatterLines) :
           frontMatterLines[i].kind = "kv" /\ frontMatterLines[i].key = key
    THEN LET i == CHOOSE j \in 1..Len(frontMatterLines) :
                      frontMatterLines[j].kind = "kv" /\ frontMatterLines[j].key = key
         IN  frontMatterLines[i].val
    ELSE ""

\* extractFrontMatter(filePath) on the file's content: the record and the error
extractFrontMatter(file) ==
    IF ~file.exists
    THEN [fm |-> ZeroFrontMatter, err |-> <<"failed to open file for front matter parsing">>]
    ELSE LET fmLines == ScanFrontMatter(file.lines, FALSE, <<>>) IN
         IF EmptyJoin(fmLines)
         THEN [fm |-> ZeroFrontMatter, err |-> <<"no front matter found">>]
         ELSE IF ~YamlDecodes(fmLines)
         THEN [fm |-> ZeroFrontMatter, err |-> <<"failed to parse front matter">>]
         ELSE [fm |-> [Title |-> YamlField(fmLines, "title"),
                       Place |-> YamlField(fmLines, "place"),
                       City |-> YamlField(fmLines, "city")],
               err |-> NoError]

\* --------------------------------------------------------------- git model
\* git add <path>: the index takes the working file
GitAdd(idx, files, path) == [idx EXCEPT ![path] = files[path]]

\* variant: git diff --exit-code <path> without --cached: working file
\* against index
GitDiffExit(idx, hd, files, path) ==
    IF ~idx[path].exists /\ ~hd[path].exists /\ ~files[path].exists THEN 128
    ELSE IF files[path] = idx[path] THEN 0
    ELSE 1

\* exit code of git diff --cached --exit-code <path>: index against last commit
GitDiffCachedExit(idx, hd, files, path) ==
    IF ~idx[path].exists /\ ~hd[path].exists /\ ~files[path].exists THEN 128
    ELSE IF idx[path] = hd[path] THEN 0
    ELSE 1

\* variant: every non-zero exit counts as "differences present"
runGitCheckChangesOnAnyExit(exitCode) ==
    IF exitCode # 0
    THEN [hasChanges |-> TRUE, err |-> NoError]
    ELSE [hasChanges |-> FALSE, err |-> NoError]

\* variant: exit code 0 is taken for "differences present" too
runGitCheckChangesAlwaysChanged(exitCode) ==
    IF exitCode \in {0, 1}
    THEN [hasChanges |-> TRUE, err |-> NoError]
    ELSE [hasChanges |-> FALSE, err |-> <<"error running git diff">>]

\* runGitCheckChanges: exit code (or -1, the command could not run) to (hasChanges, err)
runGitCheckChanges(exitCode) ==
    IF exitCode # 0
    THEN IF exitCode = 1
         THEN [hasChanges |-> TRUE, err |-> NoError]
         ELSE [hasChanges |-> FALSE, err |-> <<"error running git diff">>]
    ELSE [hasChanges |-> FALSE, err |-> NoError]

\* how git diff ends when it fails: it could not run or was killed (-1), or
\* exited with an error status
DiffFaults == {-1, 2, 128}

\* git commit -m <msg> has something to commit
GitCanCommit(idx, hd) == idx # hd

\* ---------------------------------------------------------- page registry
PageIDs == [n \in {"forro-a-strasbourg", "forro-stras"} |->
               IF n = "forro-a-strasbourg" THEN "351984064669408" ELSE "111247753705287"]

\* strings.Split(s, ","): the names between the commas
RECURSIVE SplitComma(_, _)
SplitComma(s, cur) ==
    IF s = <<>> THEN <<cur>>
    ELSE IF Head(s) = "," THEN <<cur>> \o SplitComma(Tail(s), "")
    ELSE SplitComma(Tail(s), cur \o Head(s))

\* variant: "all" anywhere in the list selects the full registry
SelectedPagesOnAnyAll(facebookPages) ==
    IF facebookPages = <<>> \/ \E i \in 1..Len(facebookPages) : facebookPages[i] = "all"
    THEN <<"forro-a-strasbourg", "forro-stras">>
    ELSE SplitComma(facebookPages, "")

\* the pages publishEvent goes through, in order
SelectedPages(facebookPages) ==
    IF facebookPages = <<>> \/ facebookPages = <<"all">>
    THEN <<"forro-a-strasbourg", "forro-stras">>
    ELSE SplitComma(facebookPages, "")

\* --------------------------------------------------------- feed responses
\* the body of a response: whether it is JSON, whether it has an "id",
\* whether that is a string, and the string as its pieces and "_"s
NotJson == [json |-> FALSE, hasId |-> FALSE, isString |-> FALSE, id |-> <<>>]
NoId == [json |-> TRUE, hasId |-> FALSE, isString |-> FALSE, id |-> <<>>]
NumberId == [json |-> TRUE, hasId |-> TRUE, isString |-> FALSE, id |-> <<"122">>]
StringId(s) == [json |-> TRUE, hasId |-> TRUE, isString |-> TRUE, id |-> s]
FbResponse(neterr, status, body) == [neterr |-> neterr, status |-> status, body |-> body]
NoResponse == FbResponse(FALSE, 0, NotJson)

\* what the POST to the feed endpoint gives inside publishEvent: a transport
\* error, a post id, a body without id, a server error
FbResponses ==
    { FbResponse(TRUE, 0, NotJson),
      FbResponse(FALSE, 200, StringId(<<"351984064669408", "_", "122">>)),
      FbResponse(FALSE, 200, NoId),
      FbResponse(FALSE, 500, NoId) }

\* and what it can give at all
FbBodies ==
    { NotJson, NoId, NumberId, StringId(<<>>), StringId(<<"122">>),
      StringId(<<"351984064669408", "_", "122">>), StringId(<<"1", "_", "2", "_", "3">>),
      StringId(<<"_">>), StringId(<<"_", "122">>) }
FbStatuses == {200, 201, 400, 500}
FbReplies ==
    {FbResponse(TRUE, 0, NotJson)} \cup {FbResponse(FALSE, st, b) : st \in FbStatuses, b \in FbBodies}

\* strings.Split(postID, "_")
RECURSIVE SplitUnderscore(_, _)
SplitUnderscore(s, cur) ==
    IF s = <<>> THEN <<cur>>
    ELSE IF Head(s) = "_" THEN <<cur>> \o SplitUnderscore(Tail(s), "")
    ELSE SplitUnderscore(Tail(s), cur \o Head(s))

\* variant: the id only has to have two parts or more
FacebookResultOfFirstParts(resp) ==
    IF resp.neterr THEN [url |-> "", err |-> <<"error posting to Facebook">>]
    ELSE IF resp.status # 200 THEN [url |-> "", err |-> <<"facebook API returned status">>]
    ELSE IF ~resp.body.json THEN [url |-> "", err |-> <<"error decoding response body">>]
    ELSE IF ~(resp.body.hasId /\ resp.body.isString) \/ resp.body.id = <<>>
    THEN [url |-> "", err |-> <<"no 'id' returned from Facebook API">>]
    ELSE LET parts == SplitUnderscore(resp.body.id, "") IN
         IF Len(parts) < 2 THEN [url |-> "", err |-> <<"unexpected format for post id">>]
         ELSE [url |-> "https://www.facebook.com/" \o parts[1] \o "/posts/" \o parts[2],
               err |-> NoError]

\* publishEventOnFacebook after the POST: the post URL and the error
FacebookResult(resp) ==
    IF resp.neterr THEN [url |-> "", err |-> <<"error posting to Facebook">>]
    ELSE IF resp.status # 200 THEN [url |-> "", err |-> <<"facebook API returned status">>]
    ELSE IF ~resp.body.json THEN [url |-> "", err |-> <<"error decoding response body">>]
    ELSE IF ~(resp.body.hasId /\ resp.body.isString) \/ resp.body.id = <<>>
    THEN [url |-> "", err |-> <<"no 'id' returned from Facebook API">>]
    ELSE LET parts == SplitUnderscore(resp.body.id, "") IN
         IF Len(parts) # 2 THEN [url |-> "", err |-> <<"unexpected format for post id">>]
         ELSE [url |-> "https://www.facebook.com/" \o parts[1] \o "/posts/" \o parts[2],
               err |-> NoError]

\* variant: the dry-run flag of publishEventOnFacebook is ignored
SimulatesNever(dryRun) == FALSE

\* line 316: if dryRun
Simulates(dryRun) == dryRun

\* lines 319-321: the placeholder URL of a dry run
SimulatedPostURL(pageID) == "https://www.facebook.com/" \o pageID \o "/posts/SimulatedPostID"

\* the page IDs and tokens publishEventOnFacebook is called with directly
FbPageIDs == {"123", "", "351984064669408"}
FbTokens == {"dummy-token", ""}

\* ------------------------------------------------------------- the poller
\* time in units of 10 seconds: publishEvent waits 5 minutes, retrying every 10 s
WaitTimeout == 30
WaitInterval == 1
\* status of a GET, 0 standing for a failed request
GetResponses == {200, 204, 404, 500, 0}
\* how long a GET takes
GetDurations == {0, 1}
\* the timeouts and intervals waitForEventPage is called with directly
PollTimeouts == {-1, 0, 2, 5}
PollIntervals == {0, 1, 3}
\* no GET made yet
NoGet == [last |-> -1, neterr |-> FALSE]

\* variant: the comparison with the deadline is inverted
NowAfter(t, d) == t > d

\* variant: an attempt may still start at the deadline
NowBeforeOrAt(t, d) == t <= d

\* line 279: time.Now().Before(deadline)
NowBefore(t, d) == t < d

\* variant: any 2xx status counts as success
PageIsLiveOn2xx(neterr, status) == ~neterr /\ status \in 200..299

\* lines 281-283: err == nil and resp.StatusCode == http.StatusOK
PageIsLive(neterr, status) == ~neterr /\ status = 200

\* variant: a failed request ends the wait
AfterAttemptFailingOnError(neterr, status) ==
    IF neterr THEN "fail" ELSE IF PageIsLive(neterr, status) THEN "return" ELSE "sleep"

\* lines 281-291: return on success, otherwise sleep and go round again
AfterAttempt(neterr, status) == IF PageIsLive(neterr, status) THEN "return" ELSE "sleep"

\* ------------------------------------------------------------ the programs
\* the two publishers of the repository: scripts/publish/publish-event.go,
\* where the push is commented out, and scripts/publish-event.go, which pushes
Publish == "scripts/publish/publish-event.go"
PublishAndPush == "scripts/publish-event.go"
Programs == {Publish, PublishAndPush}

\* variant: no program pushes
PushDisabled(program) == FALSE

\* the runner is invoked with push after the commit
PushEnabled(program) == program = PublishAndPush

\* ------------------------------------------------------------------- state
VARIABLES
    tmplFiles,      \* template path -> file
    outDir,         \* content/evenements exists
    outFiles,       \* output path -> file in the working tree
    index,          \* output path -> staged file
    head,           \* output path -> file in the last commit
    remote,         \* output path -> file in the branch on the remote
    pc,             \* position of the call in progress
    ctx,            \* its request
    md,             \* publishEventMarkdown's return values
    pages,          \* publishEvent: selected pages still to go through
    publishErrors,  \* publishEvent: pages whose post failed
    fb,             \* publishEventOnFacebook called directly: page, response, returned URL
    result,         \* the error the entered function returned
    trace,          \* what the call did to the outside world, in order
    now,            \* poller: time since waitForEventPage was entered
    polled,         \* poller: a GET request was made
    got,            \* poller called directly: the last response, and whether a request failed
    waitErr,        \* poller: its return value
    deadline,       \* poller: start + timeout
    interval,       \* poller: the sleep between two attempts
    ncalls,         \* calls made so far
    nedits,         \* template edits made so far
    prev,           \* the previous publishEventMarkdown call
    called,         \* a helper function called directly: its arguments and its result
    eventDir,       \* digest tool: ./content/evenements/ as the walk goes through it
    dg,             \* digest tool: the arguments and locals of run
    requests,       \* digest tool: the HTTP requests made by the run in progress
    last            \* publishEvent run again: the request and the posts of the run before

world == <<tmplFiles, outDir, outFiles, index, head, remote>>
\* the state of the helpers and tools that are run on their own
aux == <<called, eventDir, dg, requests, last>>
\* the state of the publisher
publisher == <<world, pc, ctx, md, pages, publishErrors, fb, result, trace, now, polled, got,
               waitErr, deadline, interval, ncalls, nedits, prev>>
vars == <<tmplFiles, outDir, outFiles, index, head, remote, pc, ctx, md, pages, publishErrors, fb,
          result, trace, now, polled, got, waitErr, deadline, interval, ncalls, nedits, prev, called,
          eventDir, dg, requests, last>>

NoCtx ==
    [entry |-> "none", TemplatePath |-> TplMissing, Date |-> [y |-> 2024, m |-> 12, d |-> 23],
     DateStr |-> "", Language |-> "", DryRun |-> TRUE, PublishFacebook |-> FALSE, PageAccessToken |-> "",
     FacebookPages |-> <<>>, vcs |-> "git", program |-> Publish]

NoEventData == [Date |-> "", LongDate |-> "", LongDateCapitalized |-> ""]

NoMd ==
    [outputPath |-> "", data |-> NoEventData, fmData |-> ZeroFrontMatter,
     alreadyPublished |-> FALSE, eventURL |-> "", err |-> NoError]

\* the arguments of publishEventMarkdown
MdArgs(req) ==
    [TemplatePath |-> req.TemplatePath, Date |-> req.Date, DateStr |-> req.DateStr,
     Language |-> req.Language,
     DryRun |-> req.DryRun, vcs |-> req.vcs, program |-> req.program]

NoPrev == [set |-> FALSE, args |-> MdArgs(NoCtx), err |-> NoError, alreadyPublished |-> FALSE,
           commits |-> 0, edited |-> FALSE, failed |-> ""]

\* no run of publishEvent is remembered
NoLast == [req |-> NoCtx, available |-> FALSE, posts |-> <<>>]

\* the digest tool is not running
NoRun ==
    [at |-> "idle", args |-> <<>>, inRepo |-> TRUE, today |-> [y |-> 2024, m |-> 12, d |-> 23],
     chatIDs |-> <<>>, dir |-> <<>>, events |-> <<>>, opened |-> <<>>, walkErr |-> NoError, message |-> <<>>,
     chats |-> <<>>, err |-> NoError]

\* no helper function was called
NoCall == [fn |-> "", d |-> [y |-> 2024, m |-> 12, d |-> 23], lang |-> "", name |-> "",
           s |-> <<>>, out |-> <<>>]

NoFb == [pageID |-> "", resp |-> NoResponse, url |-> ""]

Event(op, arg, ok, changed) ==
    [op |-> op, arg |-> arg, ok |-> ok, changed |-> changed, code |-> 0]

Init ==
    /\ tmplFiles = [t \in TemplatePaths \cup NamedTemplates |-> InitialTemplate(t)]
    /\ outDir = FALSE
    /\ outFiles = [p \in OutPaths |-> NoFile]
    /\ index = [p \in OutPaths |-> NoFile]
    /\ head = [p \in OutPaths |-> NoFile]
    /\ remote = [p \in OutPaths |-> NoFile]
    /\ pc = "idle"
    /\ ctx = NoCtx
    /\ md = NoMd
    /\ pages = <<>>
    /\ publishErrors = <<>>
    /\ fb = NoFb
    /\ result = NoError
    /\ trace = <<>>
    /\ now = 0
    /\ polled = FALSE
    /\ got = NoGet
    /\ waitErr = NoError
    /\ deadline = 0
    /\ interval = 0
    /\ ncalls = 0
    /\ nedits = 0
    /\ prev = NoPrev
    /\ called = NoCall
    /\ eventDir = <<>>
    /\ dg = NoRun
    /\ requests = <<>>
    /\ last = NoLast

\* ------------------------------------------------------------- the calls
Requests(entry, dates, vcsKinds) ==
    [entry : {entry}, TemplatePath : TemplatePaths, Date : dates, DateStr : {""},
     Language : Languages,
     DryRun : BOOLEAN, PublishFacebook : BOOLEAN, PageAccessToken : Tokens,
     FacebookPages : PageSelections, vcs : vcsKinds, program : {Publish}]

StartCall(req, first) ==
    /\ ctx' = req
    /\ pc' = first
    /\ ncalls' = ncalls + 1
    /\ UNCHANGED <<world, md, pages, publishErrors, fb, aux, result, trace, now, polled, got, waitErr, deadline, interval,
                   nedits, prev>>

\* the dateStr argument: main and publishEvent pass the date as
\* "2006-01-02"; a test with stubs may pass any string
DateStrings(req) ==
    IF req.vcs = "stub" THEN {FormatISO(req.Date), FormatDMY(req.Date)}
    ELSE {FormatISO(req.Date)}

\* a caller (a test) enters publishEventMarkdown with a runner and a checker:
\* git itself, or stubs
CallPublishEventMarkdown ==
    /\ pc = "idle"
    /\ ncalls < MaxCalls
    /\ \E req \in Requests("publishEventMarkdown", Dates, {"git", "stub"}) :
        /\ ~req.PublishFacebook /\ req.PageAccessToken = "" /\ req.FacebookPages = <<>>
        /\ \E dateStr \in DateStrings(req) :
              StartCall([req EXCEPT !.DateStr = dateStr], "md_start")

\* the publisher is run again and again on one working tree
RunPublishEventMarkdown ==
    /\ pc = "idle"
    /\ ncalls < MaxRuns
    /\ \E req \in Requests("publishEventMarkdown", RunDates, {"git"}) :
        /\ ~req.PublishFacebook /\ req.PageAccessToken = "" /\ req.FacebookPages = <<>>
        /\ StartCall([req EXCEPT !.DateStr = FormatISO(req.Date)], "md_start")

\* either program is run again and again on one working tree and one date
RunPublisher ==
    /\ pc = "idle"
    /\ ncalls < MaxRuns
    /\ \E req \in Requests("publishEventMarkdown", Dates, {"git"}), program \in Programs :
        /\ ~req.PublishFacebook /\ req.PageAccessToken = "" /\ req.FacebookPages = <<>>
        /\ StartCall([req EXCEPT !.program = program, !.DateStr = FormatISO(req.Date)],
                     "md_start")

\* main enters publishEvent, which runs git; it reads the token from the
\* environment only when asked to publish on Facebook
CallPublishEvent ==
    /\ pc = "idle"
    /\ ncalls < MaxCalls
    /\ \E req \in Requests("publishEvent", Dates, {"git"}) :
        /\ ~req.PublishFacebook => req.PageAccessToken = "" /\ req.FacebookPages = <<"all">>
        /\ StartCall([req EXCEPT !.DateStr = FormatISO(req.Date)], "pe_start")

\* publishEvent is entered once with any context: token and page selection
\* are whatever the caller put there, publishing on Facebook or not
CallPublishEventOnce ==
    /\ pc = "idle"
    /\ ncalls = 0
    /\ \E req \in Requests("publishEvent", Dates, {"git"}) :
        StartCall([req EXCEPT !.DateStr = FormatISO(req.Date)], "pe_start")

\* a caller (a test) enters waitForEventPage with a timeout and an interval
CallWaitForEventPage ==
    /\ pc = "idle"
    /\ ncalls < MaxCalls
    /\ \E timeout \in PollTimeouts, every \in PollIntervals :
        /\ ctx' = [NoCtx EXCEPT !.entry = "waitForEventPage"]
        /\ deadline' = now + timeout
        /\ interval' = every
    /\ pc' = "wait"
    /\ ncalls' = ncalls + 1
    /\ UNCHANGED <<world, md, pages, publishErrors, fb, aux, result, trace, now, polled, got, waitErr,
                   nedits, prev>>

\* publishEventMarkdown is entered once, with any of the named templates
CallWithNamedTemplate ==
    /\ pc = "idle"
    /\ ncalls = 0
    /\ \E t \in NamedTemplates, d \in NamedDates, lang \in Languages, dry \in BOOLEAN :
        StartCall([NoCtx EXCEPT !.entry = "publishEventMarkdown", !.TemplatePath = t,
                                !.Date = d, !.DateStr = FormatISO(d), !.Language = lang,
                                !.DryRun = dry],
                  "md_start")

\* the test's setup writes the template it is about to publish
WriteTemplate ==
    /\ pc = "idle"
    /\ ncalls = 0
    /\ nedits < MaxEdits
    /\ \E c \in PlainTemplates :
        /\ tmplFiles[TplTestTemplateMd] # File(c)
        /\ tmplFiles' = [tmplFiles EXCEPT ![TplTestTemplateMd] = File(c)]
    /\ nedits' = nedits + 1
    /\ UNCHANGED <<outDir, outFiles, index, head, remote, pc, ctx, md, pages, publishErrors, fb, aux, result,
                   trace, now, polled, got, waitErr, deadline, interval, ncalls, prev>>

\* ------------------------------------------------- publishEventMarkdown
outputPath == OutputPath(ctx.TemplatePath, ctx.Date)

MdLocals ==
    [outputPath |-> outputPath, data |-> EventDataOf(ctx.Date, ctx.DateStr, ctx.Language),
     fmData |-> ZeroFrontMatter, alreadyPublished |-> FALSE,
     eventURL |-> EventURL(ctx.TemplatePath, ctx.Date), err |-> NoError]

\* return ..., false, eventURL, err
MdReturnsError(path, err) ==
    /\ md' = [md EXCEPT !.outputPath = path, !.alreadyPublished = FALSE, !.err = err]
    /\ pc' = "md_ret"

callFrame == <<ctx, pages, publishErrors, fb, aux, result, now, polled, got, waitErr, deadline, interval, ncalls, nedits, prev>>

\* variant: the dry-run flag is ignored
SkipsNothing(dryRun) == FALSE

\* the guard "if !dryRun" around every side-effecting block
SkipsEffects(dryRun) == dryRun

\* lines 171-208: the paths, the event data, and the output directory
MdStart ==
    /\ pc = "md_start"
    /\ IF SkipsEffects(ctx.DryRun)
       THEN /\ md' = MdLocals
            /\ pc' = "md_ret"
            /\ UNCHANGED <<world, trace>>
       ELSE IF outDir
       THEN /\ md' = MdLocals
            /\ pc' = "md_parse"
            /\ UNCHANGED <<world, trace>>
       ELSE \E ok \in BOOLEAN :
            /\ trace' = Append(trace, Event("mkdir", OutputDir, ok, FALSE))
            /\ outDir' = ok
            /\ IF ok
               THEN md' = MdLocals /\ pc' = "md_parse"
               ELSE /\ md' = [MdLocals EXCEPT !.outputPath = "",
                                              !.err = <<"failed to create output directory">>]
                    /\ pc' = "md_ret"
            /\ UNCHANGED <<tmplFiles, outFiles, index, head, remote>>
    /\ UNCHANGED callFrame

\* lines 210-213: template.ParseFiles
MdParse ==
    /\ pc = "md_parse"
    /\ trace' = Append(trace, Event("parse", Concat(Base(ctx.TemplatePath)),
                                    tmplFiles[ctx.TemplatePath].exists, FALSE))
    /\ IF tmplFiles[ctx.TemplatePath].exists
       THEN pc' = "md_create" /\ md' = md
       ELSE MdReturnsError("", <<"error parsing template file", "no such file or directory">>)
    /\ UNCHANGED <<world, callFrame>>

\* lines 215-219: os.Create truncates the output file
MdCreate ==
    /\ pc = "md_create"
    /\ \E ok \in BOOLEAN :
        /\ trace' = Append(trace, Event("create", outputPath, ok, FALSE))
        /\ IF ok
           THEN /\ outFiles' = [outFiles EXCEPT ![outputPath] = File(<<>>)]
                /\ pc' = "md_execute" /\ md' = md
           ELSE /\ outFiles' = outFiles
                /\ MdReturnsError("", <<"failed to create output file">>)
    /\ UNCHANGED <<tmplFiles, outDir, index, head, remote, callFrame>>

\* lines 221-223: tmpl.Execute writes the rendered lines; a failing write
\* leaves the lines written so far
MdExecute ==
    /\ pc = "md_execute"
    /\ LET rendered == Render(tmplFiles[ctx.TemplatePath].lines, md.data) IN
       \E ok \in BOOLEAN :
        /\ trace' = Append(trace, Event("write", outputPath, ok, FALSE))
        /\ IF ok
           THEN /\ outFiles' = [outFiles EXCEPT ![outputPath] = File(rendered)]
                /\ pc' = "md_extract" /\ md' = md
           ELSE /\ outFiles' = [outFiles EXCEPT ![outputPath] =
                                   File(SubSeq(rendered, 1, Len(rendered) \div 2))]
                /\ MdReturnsError("", <<"error executing template">>)
    /\ UNCHANGED <<tmplFiles, outDir, index, head, remote, callFrame>>

\* variant: the extractor's error is not looked at
AfterExtractIgnoringError(err) == "md_add"

\* lines 229-231: an extraction error ends the call
AfterExtract(err) == IF err # NoError THEN "md_ret" ELSE "md_add"

\* lines 226-233: the front matter of the file just written
MdExtract ==
    /\ pc = "md_extract"
    /\ LET r == extractFrontMatter(outFiles[outputPath]) IN
       /\ pc' = AfterExtract(r.err)
       /\ md' = IF r.err # NoError
                THEN [md EXCEPT !.outputPath = outputPath, !.alreadyPublished = FALSE,
                                !.err = Wrap("failed to extract front matter", r.err)]
                ELSE [md EXCEPT !.fmData = r.fm]
    /\ UNCHANGED <<world, trace, callFrame>>

\* variant: the check is run whether or not add succeeded
AfterAddIgnoringFailure(ok) == "md_check"

\* after the runner's add: the check, unless add failed
AfterAdd(ok) == IF ok THEN "md_check" ELSE "md_ret"

\* lines 237-245: os.Getwd, then the runner with add
MdAdd ==
    /\ pc = "md_add"
    /\ \/ /\ MdReturnsError(outputPath, <<"failed to get current working directory">>)
          /\ UNCHANGED <<world, trace>>
       \/ \E ok \in BOOLEAN :
          /\ trace' = Append(trace, Event("add", outputPath, ok, FALSE))
          /\ index' = IF ok /\ ctx.vcs = "git" THEN GitAdd(index, outFiles, outputPath)
                      ELSE index
          /\ pc' = AfterAdd(ok)
          /\ md' = IF ok THEN md
                   ELSE [md EXCEPT !.err = <<"git add failed", "failed to run git command">>]
          /\ UNCHANGED <<tmplFiles, outDir, outFiles, head, remote>>
    /\ UNCHANGED callFrame

\* what the checker gives: git's diff through runGitCheckChanges (the command
\* may also fail to run), or whatever a stub returns
CheckerResults ==
    IF ctx.vcs = "git"
    THEN {[code |-> c, res |-> runGitCheckChanges(c)] :
            c \in {GitDiffCachedExit(index, head, outFiles, outputPath)} \cup DiffFaults}
    ELSE {[code |-> 0, res |-> r] : r \in [hasChanges : BOOLEAN, err : {NoError, <<"mock error">>}]}

\* variant: the commit is attempted even when nothing changed
AfterCheckCommitsAnyway(r) ==
    IF r.err # NoError THEN [pc |-> "md_ret", alreadyPublished |-> FALSE, err |-> r.err]
    ELSE [pc |-> "md_commit", alreadyPublished |-> FALSE, err |-> NoError]

\* lines 249-256: what publishEventMarkdown does with the checker's answer
AfterCheck(r) ==
    IF r.err # NoError THEN [pc |-> "md_ret", alreadyPublished |-> FALSE, err |-> r.err]
    ELSE IF ~r.hasChanges THEN [pc |-> "md_ret", alreadyPublished |-> TRUE, err |-> NoError]
    ELSE [pc |-> "md_commit", alreadyPublished |-> FALSE, err |-> NoError]

\* lines 247-256: the staged-diff check
MdCheck ==
    /\ pc = "md_check"
    /\ \E c \in CheckerResults :
        LET r == c.res IN
        /\ trace' = Append(trace, [Event("check", outputPath, r.err = NoError, r.hasChanges)
                                      EXCEPT !.code = c.code])
        /\ md' = [md EXCEPT !.alreadyPublished = AfterCheck(r).alreadyPublished,
                            !.err = AfterCheck(r).err]
        /\ pc' = AfterCheck(r).pc
    /\ UNCHANGED <<world, callFrame>>

\* lines 258-269: the runner with commit -m, and what follows it
MdCommit ==
    /\ pc = "md_commit"
    /\ \E ok \in (IF ctx.vcs = "git" /\ ~GitCanCommit(index, head) THEN {FALSE} ELSE BOOLEAN) :
        /\ trace' = Append(trace, Event("commit", CommitMsg(ctx.TemplatePath, ctx.DateStr), ok, FALSE))
        /\ head' = IF ok /\ ctx.vcs = "git" THEN index ELSE head
        /\ IF ok THEN md' = md /\ pc' = (IF PushEnabled(ctx.program) THEN "md_push" ELSE "md_ret")
           ELSE MdReturnsError(outputPath, <<"git commit failed", "failed to run git command">>)
    /\ UNCHANGED <<tmplFiles, outDir, outFiles, index, remote, callFrame>>

\* scripts/publish-event.go lines 255-259: the runner with push sends the
\* last commit to the remote
MdPush ==
    /\ pc = "md_push"
    /\ \E ok \in BOOLEAN :
        /\ trace' = Append(trace, Event("push", "", ok, FALSE))
        /\ remote' = IF ok THEN head ELSE remote
        /\ IF ok THEN md' = md /\ pc' = "md_ret"
           ELSE MdReturnsError(outputPath, <<"git push failed", "failed to run git command">>)
    /\ UNCHANGED <<tmplFiles, outDir, outFiles, index, head, callFrame>>

\* ------------------------------------------------------------ publishEvent
\* variant: no token validation
TokenNotChecked(req) == FALSE

\* line 389: external publishing asked for without a token
TokenMissing(req) == req.PublishFacebook /\ req.PageAccessToken = ""

\* variant: no check that the template exists
TemplateNotChecked(files, templatePath) == FALSE

\* line 394: os.Stat says the template is not there
TemplateMissing(files, templatePath) == ~files[templatePath].exists

Finish(err) ==
    /\ result' = err
    /\ pc' = "done"

\* lines 388-396: the two validations
PeStart ==
    /\ pc = "pe_start"
    /\ IF TokenMissing(ctx)
       THEN /\ Finish(<<"FACEBOOK_PAGE_ACCESS_TOKEN not set">>)
            /\ trace' = trace
       ELSE /\ trace' = Append(trace, Event("stat", Concat(Base(ctx.TemplatePath)),
                                            tmplFiles[ctx.TemplatePath].exists, FALSE))
            /\ IF TemplateMissing(tmplFiles, ctx.TemplatePath)
               THEN Finish(<<"error publishing event", "template file does not exist">>)
               ELSE pc' = "md_start" /\ result' = result
    /\ UNCHANGED <<world, ctx, md, pages, publishErrors, fb, aux, now, polled, got, waitErr, deadline, interval, ncalls, nedits, prev>>

\* variant: the Markdown Publisher's error is not looked at
AfterMarkdownIgnoringError(req, err) ==
    IF ~req.PublishFacebook THEN "finish"
    ELSE IF ~req.DryRun THEN "wait"
    ELSE "post"

\* variant: the Facebook stage is entered whether asked for or not
AfterMarkdownAlwaysPublishing(req, err) ==
    IF err # NoError THEN "fail"
    ELSE IF ~req.DryRun THEN "wait"
    ELSE "post"

\* lines 408-422: what follows the Markdown Publisher
AfterMarkdown(req, err) ==
    IF err # NoError THEN "fail"
    ELSE IF ~req.PublishFacebook THEN "finish"
    ELSE IF ~req.DryRun THEN "wait"
    ELSE "post"

\* publishEventMarkdown returns: to the test that called it, or into publishEvent
MdReturn ==
    /\ pc = "md_ret"
    /\ IF ctx.entry = "publishEventMarkdown"
       THEN Finish(md.err) /\ UNCHANGED <<pages, deadline, interval>>
       ELSE LET to == AfterMarkdown(ctx, md.err) IN
            /\ result' = IF to = "fail" THEN Wrap("error publishing event", md.err) ELSE NoError
            /\ pc' = CASE to = "fail" -> "done" [] to = "finish" -> "done"
                       [] to = "wait" -> "wait" [] OTHER -> "pe_post"
            /\ pages' = IF to = "post" THEN SelectedPages(ctx.FacebookPages) ELSE pages
            /\ deadline' = IF to = "wait" THEN now + WaitTimeout ELSE deadline
            /\ interval' = IF to = "wait" THEN WaitInterval ELSE interval
    /\ UNCHANGED <<world, ctx, md, publishErrors, fb, aux, trace, now, polled, got, waitErr, ncalls, nedits, prev>>

\* ------------------------------------------------------- waitForEventPage
\* lines 279-292: one turn of the loop: a GET, then return on 200 or sleep
WaitLoop ==
    /\ pc = "wait"
    /\ NowBefore(now, deadline)
    /\ \E status \in GetResponses, took \in GetDurations :
        LET to == AfterAttempt(status = 0, status) IN
        /\ polled' = TRUE
        /\ got' = IF ctx.entry = "waitForEventPage"
                  THEN [last |-> status, neterr |-> got.neterr \/ status = 0]
                  ELSE got
        /\ CASE to = "return" -> now' = now + took /\ pc' = "wait_ret" /\ waitErr' = NoError
             [] to = "sleep" -> now' = now + took + interval /\ pc' = "wait" /\ waitErr' = waitErr
             [] OTHER -> now' = now + took /\ pc' = "wait_ret" /\ waitErr' = <<"request failed">>
    /\ UNCHANGED <<world, ctx, md, pages, publishErrors, fb, aux, result, trace, deadline, interval,
                   ncalls, nedits, prev>>

\* line 294: the deadline has passed
WaitTimedOut ==
    /\ pc = "wait"
    /\ ~NowBefore(now, deadline)
    /\ waitErr' = <<"timed out waiting for the event page to become available">>
    /\ pc' = "wait_ret"
    /\ UNCHANGED <<world, ctx, md, pages, publishErrors, fb, aux, result, trace, now, polled, got, deadline,
                   interval, ncalls, nedits, prev>>

\* variant: the posting stage is entered even after a timeout
AfterWaitIgnoringError(err) == "pe_post"

\* lines 419-436: publishEvent after the poller
AfterWait(err) == IF err # NoError THEN "done" ELSE "pe_post"

\* waitForEventPage returns, and its locals end with it: to the test that
\* called it, or into publishEvent
WaitReturn ==
    /\ pc = "wait_ret"
    /\ IF ctx.entry = "waitForEventPage"
       THEN Finish(waitErr) /\ UNCHANGED <<pages, got, now, deadline, interval>>
       ELSE /\ pc' = AfterWait(waitErr)
            /\ result' = IF AfterWait(waitErr) = "done"
                         THEN Wrap("event page did not become available in time", waitErr)
                         ELSE NoError
            /\ pages' = IF AfterWait(waitErr) = "done" THEN pages
                        ELSE SelectedPages(ctx.FacebookPages)
            /\ got' = NoGet
            /\ now' = 0
            /\ deadline' = 0
            /\ interval' = 0
    /\ UNCHANGED <<world, ctx, md, publishErrors, fb, aux, trace, polled, waitErr, ncalls, nedits, prev>>

\* ------------------------------------------------------ the posting stage
\* variant: every name is taken for a registered page
KnownWithoutLookup(pageName) == TRUE

\* lines 441-445: the registry lookup
Known(pageName) == pageName \in DOMAIN PageIDs

\* lines 449-454: a failed post is recorded and the loop goes on
RecordFailure(errors, pageName, err) ==
    IF err # NoError THEN Append(errors, pageName) ELSE errors

\* variant: the loop stops at the first failed post
RestOfPagesFailFast(ps, failed) == IF failed THEN <<>> ELSE Tail(ps)

\* lines 440, 444, 453: the loop goes on to the next page, failure or not
RestOfPages(ps, failed) == Tail(ps)

\* lines 440-455: one turn of the loop over the selected pages
PePost ==
    /\ pc = "pe_post"
    /\ pages # <<>>
    /\ LET pageName == Head(pages) IN
       IF ~Known(pageName)
       THEN trace' = trace /\ publishErrors' = publishErrors
       ELSE IF Simulates(ctx.DryRun)
       THEN /\ trace' = Append(trace, Event("simulate", pageName, TRUE, FALSE))
            /\ publishErrors' = publishErrors
       ELSE \E resp \in FbResponses :
            LET r == FacebookResult(resp) IN
            /\ trace' = Append(trace, Event("post", pageName, r.err = NoError, FALSE))
            /\ publishErrors' = RecordFailure(publishErrors, pageName, r.err)
    /\ pages' = RestOfPages(pages, Len(publishErrors') > Len(publishErrors))
    /\ UNCHANGED <<world, pc, ctx, md, fb, aux, result, now, polled, got, waitErr, deadline, interval, ncalls, nedits, prev>>

\* variant: a single failed post is let through
PostingFailsOnSeveral(errors) == Len(errors) > 1

\* lines 458-460: the posting stage fails if any post failed
PostingFails(errors) == Len(errors) > 0

\* lines 457-463
PeFinish ==
    /\ pc = "pe_post"
    /\ pages = <<>>
    /\ Finish(IF PostingFails(publishErrors)
              THEN <<"Facebook publishing errors">> \o publishErrors
              ELSE NoError)
    /\ UNCHANGED <<world, ctx, md, pages, publishErrors, fb, aux, trace, now, polled, got, waitErr, deadline, interval, ncalls,
                   nedits, prev>>

\* ---------------------------------------------------------- between calls
Commits(tr) == Cardinality({i \in 1..Len(tr) : tr[i].op = "commit" /\ tr[i].ok})

\* the version-control step the call failed at, if any
FailedStep(tr) ==
    IF tr # <<>> /\ ~tr[Len(tr)].ok /\ tr[Len(tr)].op \in {"add", "check", "commit", "push"}
    THEN tr[Len(tr)].op
    ELSE ""

\* the call is over and its locals are gone; a publishEventMarkdown with git, not in dry run, that
\* went through or failed at a version-control step is remembered for the
\* next call
EndOfCall ==
    /\ pc = "done"
    /\ pc' = "idle"
    /\ prev' = IF md # NoMd /\ md.err = NoError /\ ~ctx.DryRun /\ ctx.vcs = "git"
               THEN [set |-> TRUE, args |-> MdArgs(ctx), err |-> md.err,
                     alreadyPublished |-> md.alreadyPublished,
                     commits |-> Commits(trace), edited |-> FALSE, failed |-> ""]
               ELSE IF md # NoMd /\ ~ctx.DryRun /\ ctx.vcs = "git" /\ FailedStep(trace) # ""
               THEN [NoPrev EXCEPT !.args = MdArgs(ctx), !.failed = FailedStep(trace)]
               ELSE NoPrev
    /\ ctx' = NoCtx
    /\ md' = NoMd
    /\ pages' = <<>>
    /\ publishErrors' = <<>>
    /\ fb' = NoFb
    /\ result' = NoError
    /\ trace' = <<>>
    /\ now' = 0
    /\ polled' = FALSE
    /\ got' = NoGet
    /\ waitErr' = NoError
    /\ deadline' = 0
    /\ interval' = 0
    /\ UNCHANGED <<world, ncalls, nedits>>

Return == EndOfCall /\ UNCHANGED aux

\* the same, the request and the posts of the run being kept for the next one
ReturnRemembered ==
    /\ EndOfCall
    /\ last' = [req |-> ctx,
                available |-> polled /\ waitErr = NoError,
                posts |-> LET posts == SelectSeq(trace, LAMBDA e : e.op = "post")
                          IN  [i \in 1..Len(posts) |-> posts[i].arg]]
    /\ UNCHANGED <<called, eventDir, dg, requests>>

\* somebody edits the template between two calls
EditTemplate ==
    /\ pc = "idle"
    /\ nedits < MaxEdits
    /\ \E c \in TemplateContents :
        /\ tmplFiles[TplOkivu] # File(c)
        /\ tmplFiles' = [tmplFiles EXCEPT ![TplOkivu] = File(c)]
    /\ nedits' = nedits + 1
    /\ prev' = [prev EXCEPT !.edited = TRUE]
    /\ UNCHANGED <<outDir, outFiles, index, head, remote, pc, ctx, md, pages, publishErrors, fb, aux, result,
                   trace, now, polled, got, waitErr, deadline, interval, ncalls>>

Next ==
    \/ CallPublishEventMarkdown
    \/ CallPublishEvent
    \/ MdStart
    \/ MdParse
    \/ MdCreate
    \/ MdExecute
    \/ MdExtract
    \/ MdAdd
    \/ MdCheck
    \/ MdCommit
    \/ MdReturn
    \/ PeStart
    \/ WaitLoop
    \/ WaitTimedOut
    \/ WaitReturn
    \/ PePost
    \/ PeFinish
    \/ Return
    \/ EditTemplate

Spec == Init /\ [][Next]_vars

\* publishEventMarkdown run repeatedly with git
NextRepeat ==
    \/ RunPublishEventMarkdown
    \/ MdStart
    \/ MdParse
    \/ MdCreate
    \/ MdExecute
    \/ MdExtract
    \/ MdAdd
    \/ MdCheck
    \/ MdCommit
    \/ MdReturn
    \/ Return
    \/ EditTemplate

SpecRepeat == Init /\ [][NextRepeat]_vars

\* either program run repeatedly
NextPush ==
    \/ RunPublisher
    \/ MdStart
    \/ MdParse
    \/ MdCreate
    \/ MdExecute
    \/ MdExtract
    \/ MdAdd
    \/ MdCheck
    \/ MdCommit
    \/ MdPush
    \/ MdReturn
    \/ Return
    \/ EditTemplate

SpecPush == Init /\ [][NextPush]_vars

\* waitForEventPage called on its own
NextPoll ==
    \/ CallWaitForEventPage
    \/ WaitLoop
    \/ WaitTimedOut
    \/ WaitReturn
    \/ Return

SpecPoll == Init /\ [][NextPoll]_vars

\* a turn of the loop during which the clock moves on
WaitLoopAdvancing == WaitLoop /\ now' > now

\* every GET returns, the clock advances, and the call goes on running
LivePoll ==
    /\ SpecPoll
    /\ WF_vars(WaitLoop)
    /\ SF_vars(WaitLoopAdvancing)
    /\ WF_vars(WaitTimedOut)

\* publishEventMarkdown called once on a named template
NextNamed ==
    \/ WriteTemplate
    \/ CallWithNamedTemplate
    \/ MdStart
    \/ MdParse
    \/ MdCreate
    \/ MdExecute
    \/ MdExtract
    \/ MdAdd
    \/ MdCheck
    \/ MdCommit
    \/ MdReturn
    \/ Return

SpecNamed == Init /\ [][NextNamed]_vars

\* publishEvent called once
NextOnce ==
    \/ CallPublishEventOnce
    \/ PeStart
    \/ MdStart
    \/ MdParse
    \/ MdCreate
    \/ MdExecute
    \/ MdExtract
    \/ MdAdd
    \/ MdCheck
    \/ MdCommit
    \/ MdReturn
    \/ WaitLoop
    \/ WaitTimedOut
    \/ WaitReturn
    \/ PePost
    \/ PeFinish
    \/ Return

SpecOnce == Init /\ [][NextOnce]_vars

\* ------------------------------------------ publishEventOnFacebook alone
\* TestPublishEventOnFacebook: the function is called with a page ID, a
\* token and the dry-run flag; lines 316-374
CallPublishEventOnFacebook ==
    /\ pc = "idle"
    /\ ncalls < MaxCalls
    /\ \E pageID \in FbPageIDs, token \in FbTokens, dryRun \in BOOLEAN :
        /\ ctx' = [NoCtx EXCEPT !.entry = "publishEventOnFacebook", !.DryRun = dryRun,
                                !.PublishFacebook = TRUE, !.PageAccessToken = token]
        /\ IF Simulates(dryRun)
           THEN /\ trace' = Append(trace, Event("simulate", pageID, TRUE, FALSE))
                /\ fb' = [pageID |-> pageID, resp |-> NoResponse, url |-> SimulatedPostURL(pageID)]
                /\ result' = NoError
           ELSE \E resp \in FbReplies :
                LET r == FacebookResult(resp) IN
                /\ trace' = Append(trace, Event("post", pageID, r.err = NoError, FALSE))
                /\ fb' = [pageID |-> pageID, resp |-> resp, url |-> r.url]
                /\ result' = r.err
    /\ pc' = "done"
    /\ ncalls' = ncalls + 1
    /\ UNCHANGED <<world, md, pages, publishErrors, now, polled, got, waitErr, deadline,
                   interval, nedits, prev, aux>>

NextFacebook ==
    \/ CallPublishEventOnFacebook
    \/ Return

SpecFacebook == Init /\ [][NextFacebook]_vars

\* --------------------------------------------- extractFrontMatter alone
\* TestExtractFrontMatter: a file is written and extractFrontMatter is called
\* on it.  The lines files are made of:
FmLines ==
    { Delim, Indented(Delim, 2), KV("title", "Test Event"), KV("place", "Test Place"),
      Text("title: [invalid yaml"), Text("") }
FmFiles == UNION {[1..n -> FmLines] : n \in 0..MaxFileLen}
TestFile == OutputPath(TplOkivu, [y |-> 2024, m |-> 12, d |-> 23])

\* os.WriteFile(tmpFile, content)
WriteTestFile ==
    /\ pc = "idle"
    /\ ncalls = 0
    /\ ~outFiles[TestFile].exists
    /\ \E f \in FmFiles : outFiles' = [outFiles EXCEPT ![TestFile] = File(f)]
    /\ UNCHANGED <<tmplFiles, outDir, index, head, remote, pc, ctx, md, pages, publishErrors, fb, aux,
                   result, trace, now, polled, got, waitErr, deadline, interval, ncalls,
                   nedits, prev>>

\* extractFrontMatter(tmpFile)
CallExtractFrontMatter ==
    /\ pc = "idle"
    /\ ncalls = 0
    /\ LET r == extractFrontMatter(outFiles[TestFile]) IN
       /\ md' = [NoMd EXCEPT !.fmData = r.fm, !.err = r.err]
       /\ result' = r.err
    /\ ctx' = [NoCtx EXCEPT !.entry = "extractFrontMatter"]
    /\ pc' = "done"
    /\ ncalls' = ncalls + 1
    /\ UNCHANGED <<world, pages, publishErrors, fb, aux, trace, now, polled, got, waitErr, deadline,
                   interval, nedits, prev>>

NextFrontMatter ==
    \/ WriteTestFile
    \/ CallExtractFrontMatter
    \/ Return

SpecFrontMatter == Init /\ [][NextFrontMatter]_vars

\* ------------------------------------------- the repository, step by step
\* TestRunGitCheckChanges: a file in a repository is written, staged and
\* committed command by command, and runGitCheckChanges is asked about it
RepoPath == OutputPath(TplOkivu, [y |-> 2024, m |-> 12, d |-> 23])
RepoContents == {"test content", "edited content"}

RepoFrame == <<tmplFiles, outDir, remote, pc, ctx, md, pages, publishErrors, fb, aux, result, now, polled,
               got, waitErr, deadline, interval, ncalls, nedits, prev>>

\* os.WriteFile gives the file a new content
RepoEdit ==
    /\ pc = "idle"
    /\ Len(trace) < MaxOps
    /\ \E c \in RepoContents :
        /\ outFiles[RepoPath] # File(<<Text(c)>>)
        /\ outFiles' = [outFiles EXCEPT ![RepoPath] = File(<<Text(c)>>)]
        /\ trace' = Append(trace, Event("edit", c, TRUE, FALSE))
    /\ UNCHANGED <<index, head, RepoFrame>>

\* runGitCommand(dir, "add", path): fails when the path matches no file
RepoAdd ==
    /\ pc = "idle"
    /\ Len(trace) < MaxOps
    /\ LET ok == outFiles[RepoPath].exists IN
       /\ index' = IF ok THEN GitAdd(index, outFiles, RepoPath) ELSE index
       /\ trace' = Append(trace, Event("add", RepoPath, ok, FALSE))
    /\ UNCHANGED <<outFiles, head, RepoFrame>>

\* runGitCommand(dir, "commit", "-m", msg): fails when nothing is staged
RepoCommit ==
    /\ pc = "idle"
    /\ Len(trace) < MaxOps
    /\ LET ok == GitCanCommit(index, head) IN
       /\ head' = IF ok THEN index ELSE head
       /\ trace' = Append(trace, Event("commit", "Initial commit", ok, FALSE))
    /\ UNCHANGED <<outFiles, index, RepoFrame>>

\* runGitCheckChanges(dir, path)
RepoCheck ==
    /\ pc = "idle"
    /\ Len(trace) < MaxOps
    /\ LET code == GitDiffCachedExit(index, head, outFiles, RepoPath)
           r == runGitCheckChanges(code)
       IN  trace' = Append(trace, [Event("check", RepoPath, r.err = NoError, r.hasChanges)
                                      EXCEPT !.code = code])
    /\ UNCHANGED <<outFiles, index, head, RepoFrame>>

NextRepo ==
    \/ RepoEdit
    \/ RepoAdd
    \/ RepoCommit
    \/ RepoCheck

SpecRepo == Init /\ [][NextRepo]_vars

\* -------------------------------------------- publishEvent run again
\* publishEvent is run, and run again, to publish on Facebook
CallPublishEventForFacebook ==
    /\ pc = "idle"
    /\ ncalls < MaxCalls
    /\ \E req \in Requests("publishEvent", Dates, {"git"}) :
        /\ req.TemplatePath = TplOkivu /\ req.Language = "fr" /\ req.PublishFacebook
        /\ StartCall([req EXCEPT !.DateStr = FormatISO(req.Date)], "pe_start")

NextAgain ==
    \/ CallPublishEventForFacebook
    \/ MdStart
    \/ MdParse
    \/ MdCreate
    \/ MdExecute
    \/ MdExtract
    \/ MdAdd
    \/ MdCheck
    \/ MdCommit
    \/ MdReturn
    \/ PeStart
    \/ WaitLoop
    \/ WaitTimedOut
    \/ WaitReturn
    \/ PePost
    \/ PeFinish
    \/ ReturnRemembered

SpecAgain == Init /\ [][NextAgain]_vars

\* ------------------------------------------- the locale helpers alone
\* TestGetWeekdayName, TestGetMonthName and TestCapitalizeFirstLetter call
\* each helper with a date and a language code, or with a string.
MaxChars == 2
HelperDates ==
    {[y |-> y, m |-> m, d |-> d] : y \in {2023, 2024}, m \in 1..12, d \in {1, 2, 3, 4, 5, 6, 7, 23, 24, 28}}
      \cup {[y |-> 2024, m |-> 2, d |-> 29], [y |-> 2024, m |-> 12, d |-> 31]}
HelperLanguages == {"fr", "en", "", "de", "FR"}
\* the strings of TestCapitalizeFirstLetter, the weekday names, and every
\* string of at most MaxChars of these characters
HelperChars == {"a", "W", "é", "É", "€", " "}
HelperStrings ==
    { <<>>, <<"a">>, <<"h", "e", "l", "l", "o">>, <<"W", "o", "r", "l", "d">>,
      <<"h", "e", "l", "l", "o", " ", "w", "o", "r", "l", "d">>,
      <<"é", "c", "o", "l", "e">> }
      \cup {Spelled(getWeekdayName(d, lang)) :
              d \in {[y |-> 2024, m |-> 12, d |-> dd] : dd \in 1..7}, lang \in {"fr", "en"}}
      \cup UNION {[1..n -> HelperChars] : n \in 0..MaxChars}

CallGetWeekdayName ==
    /\ pc = "idle" /\ called = NoCall
    /\ \E d \in HelperDates, lang \in HelperLanguages :
         called' = [NoCall EXCEPT !.fn = "getWeekdayName", !.d = d, !.lang = lang,
                                  !.name = getWeekdayName(d, lang)]
    /\ UNCHANGED <<publisher, last, eventDir, dg, requests>>

CallGetMonthName ==
    /\ pc = "idle" /\ called = NoCall
    /\ \E d \in HelperDates, lang \in HelperLanguages :
         called' = [NoCall EXCEPT !.fn = "getMonthName", !.d = d, !.lang = lang,
                                  !.name = getMonthName(d, lang)]
    /\ UNCHANGED <<publisher, last, eventDir, dg, requests>>

CallCapitalizeFirstLetter ==
    /\ pc = "idle" /\ called = NoCall
    /\ \E chars \in HelperStrings :
         called' = [NoCall EXCEPT !.fn = "capitalizeFirstLetter", !.s = Utf8(chars),
                                  !.out = capitalizeFirstLetter(Utf8(chars))]
    /\ UNCHANGED <<publisher, last, eventDir, dg, requests>>

NextHelpers ==
    \/ CallGetWeekdayName
    \/ CallGetMonthName
    \/ CallCapitalizeFirstLetter

SpecHelpers == Init /\ [][NextHelpers]_vars

\* ------------------------------------------------- the weekly digest tool
\* scripts/send: run walks ./content/evenements/, keeps the events of one
\* ISO week, renders a message and posts it to the chats when asked to.
MaxEventFiles == 3

IsLeap(y) == (y % 4 = 0 /\ y % 100 # 0) \/ y % 400 = 0
DaysIn(y, m) ==
    IF m = 2 THEN (IF IsLeap(y) THEN 29 ELSE 28)
    ELSE IF m \in {4, 6, 9, 11} THEN 30 ELSE 31

\* the calendar date one day later, one day earlier, n days away
NextDay(d) ==
    IF d.d < DaysIn(d.y, d.m) THEN [d EXCEPT !.d = d.d + 1]
    ELSE IF d.m < 12 THEN [d EXCEPT !.m = d.m + 1, !.d = 1]
    ELSE [d EXCEPT !.y = d.y + 1, !.m = 1, !.d = 1]
PrevDay(d) ==
    IF d.d > 1 THEN [d EXCEPT !.d = d.d - 1]
    ELSE IF d.m > 1 THEN [d EXCEPT !.m = d.m - 1, !.d = DaysIn(d.y, d.m - 1)]
    ELSE [d EXCEPT !.y = d.y - 1, !.m = 12, !.d = 31]
RECURSIVE AddDays(_, _)
AddDays(d, n) ==
    IF n = 0 THEN d
    ELSE IF n > 0 THEN AddDays(NextDay(d), n - 1)
    ELSE AddDays(PrevDay(d), n + 1)

\* the day of the year, from 0
RECURSIVE YearDay(_)
YearDay(d) ==
    IF d.m = 1 THEN d.d - 1
    ELSE DaysIn(d.y, d.m - 1) + YearDay([d EXCEPT !.m = d.m - 1])

\* time.Time.ISOWeek: the year and the week of the Thursday of the date's
\* Monday-to-Sunday week
ISOWeek(d) ==
    LET shift == IF Weekday(d) = 0 THEN -3 ELSE 4 - Weekday(d)
        thursday == AddDays(d, shift)
    IN  [year |-> thursday.y, week |-> (YearDay(thursday) \div 7) + 1]

\* variant: the week of the current day
CurrentISOWeekOfToday(today) == ISOWeek(today)

\* time.Now().Add(24 * time.Hour).UTC().ISOWeek(), today being the UTC date
CurrentISOWeek(today) == ISOWeek(AddDays(today, 1))

frenchWeekDay(day) ==
    CASE day = 1 -> "lundi" [] day = 2 -> "mardi" [] day = 3 -> "mercredi"
      [] day = 4 -> "jeudi" [] day = 5 -> "vendredi" [] day = 6 -> "samedi"
      [] day = 0 -> "dimanche" [] OTHER -> "jour"

\* the entries the walk can meet.  A start date is the wall-clock date and
\* time written in the front matter.
Start(y, m, d) == [y |-> y, m |-> m, d |-> d, h |-> 19, min |-> 30]
Entry(stem, ext, isDir, opens, found, decodes, start) ==
    [stem |-> stem, ext |-> ext, isDir |-> isDir, opens |-> opens, found |-> found,
     decodes |-> decodes, title |-> "Forro", start |-> start]
EventEntries ==
    { Entry("okivu", ".md", FALSE, TRUE, TRUE, TRUE, Start(2024, 12, 27)),
      Entry("okivu", ".md", FALSE, TRUE, TRUE, TRUE, Start(2024, 12, 30)),
      Entry("okivu", ".md", FALSE, TRUE, TRUE, TRUE, Start(2023, 12, 30)),
      Entry("unreadable", ".md", FALSE, FALSE, TRUE, TRUE, Start(2024, 12, 30)),
      Entry("plain", ".md", FALSE, TRUE, FALSE, TRUE, Start(2024, 12, 30)),
      Entry("broken", ".md", FALSE, TRUE, TRUE, FALSE, Start(2024, 12, 30)),
      Entry("100%-forro", ".md", FALSE, TRUE, TRUE, TRUE, Start(2024, 12, 30)),
      Entry("okivu.md", ".template", FALSE, TRUE, TRUE, TRUE, Start(2024, 12, 30)),
      Entry("templates", "", TRUE, TRUE, FALSE, FALSE, Start(2024, 12, 30)) }
\* the UTC dates the tool is run on
RunDays ==
    { [y |-> 2024, m |-> 12, d |-> 28], [y |-> 2024, m |-> 12, d |-> 29],
      [y |-> 2024, m |-> 12, d |-> 30] }
\* os.Args[1:]
ArgLists == { <<>>, <<"-send">>, <<"now", "-send">> }
\* cfg.chatIDs
ChatIDLists == { <<>>, <<"!forro", "!special">> }
\* what the chat endpoint answers
ChatReplies ==
    { [neterr |-> FALSE, status |-> 200], [neterr |-> FALSE, status |-> 299],
      [neterr |-> FALSE, status |-> 300], [neterr |-> TRUE, status |-> 0] }

\* the i-th entry of the directory, in the order of the walk
EntryPath(f, i) == <<ToString(i) \o "-" \o f.stem, f.ext>>
\* filepath.Ext
Ext(path) == path[Len(path)]
\* url.Parse rejects a path with a malformed escape, such as "%-f"
UrlParses(f) == f.stem # "100%-forro"

\* getFrontMatter
getFrontMatter(f) ==
    IF ~f.found THEN [fm |-> [Title |-> "", StartDate |-> f.start], err |-> <<"no frontmatter found">>]
    ELSE IF ~f.decodes THEN [fm |-> [Title |-> "", StartDate |-> f.start], err |-> <<"yaml: unmarshal errors">>]
    ELSE [fm |-> [Title |-> f.title, StartDate |-> f.start], err |-> NoError]

\* the callback of fs.WalkDir on one entry: the error it returns, the event it
\* appends, and whether it opened the file
NoVisit == [err |-> NoError, events |-> <<>>, opened |-> FALSE]
Visit(f, i, current) ==
    LET path == EntryPath(f, i)
        r == getFrontMatter(f)
        pagePath == Concat(TrimSuffix(path, Ext(path)))
    IN  IF f.isDir THEN NoVisit
        ELSE IF Ext(path) # ".md" THEN NoVisit
        ELSE IF ~f.opens THEN [NoVisit EXCEPT !.err = <<"open " \o Concat(path)>>, !.opened = TRUE]
        ELSE IF r.err # NoError THEN [NoVisit EXCEPT !.err = r.err, !.opened = TRUE]
        ELSE IF ISOWeek(r.fm.StartDate) # current THEN [NoVisit EXCEPT !.opened = TRUE]
        ELSE IF ~UrlParses(f) THEN [NoVisit EXCEPT !.opened = TRUE]
        ELSE [err |-> NoError, opened |-> TRUE,
              events |-> << [Title |-> r.fm.Title,
                             StartDay |-> r.fm.StartDate.d,
                             StartMonth |-> r.fm.StartDate.m,
                             WeekDay |-> frenchWeekDay(Weekday(r.fm.StartDate)),
                             StartHour |-> Pad2(r.fm.StartDate.h) \o "h" \o Pad2(r.fm.StartDate.min),
                             URL |-> "https://forrostrasbourg.fr/evenements/" \o pagePath] >>]

\* variant: the walk goes on after an error
RECURSIVE WalkDirPastErrors(_, _, _, _)
WalkDirPastErrors(files, i, current, acc) ==
    IF i > Len(files) THEN acc
    ELSE LET v == Visit(files[i], i, current)
             next == [events |-> acc.events \o v.events,
                      opened |-> IF v.opened THEN Append(acc.opened, i) ELSE acc.opened,
                      err |-> IF acc.err = NoError THEN v.err ELSE acc.err]
         IN  WalkDirPastErrors(files, i + 1, current, next)

\* fs.WalkDir: the entries in lexical order, until the callback returns an error
RECURSIVE WalkDir(_, _, _, _)
WalkDir(files, i, current, acc) ==
    IF i > Len(files) THEN acc
    ELSE LET v == Visit(files[i], i, current)
             next == [events |-> acc.events \o v.events,
                      opened |-> IF v.opened THEN Append(acc.opened, i) ELSE acc.opened,
                      err |-> v.err]
         IN  IF v.err # NoError THEN next ELSE WalkDir(files, i + 1, current, next)

\* messageTempl executed on the events
MessageOf(events) ==
    <<"Bonjour à toutes et tous,", "Pour cette semaine, on a :">>
      \o [i \in 1..Len(events) |->
            "- Le " \o events[i].WeekDay \o " " \o ToString(events[i].StartDay) \o "/"
              \o ToString(events[i].StartMonth) \o " à " \o events[i].StartHour \o ", "
              \o events[i].Title \o " : " \o events[i].URL]
      \o <<"Au plaisir de vous y voir">>

\* variant: any first argument will do
SendsOnAnyArgument(args) == Len(args) >= 1

\* len(os.Args) < 2 || os.Args[1] != "-send" does not hold
Sends(args) == Len(args) >= 1 /\ args[1] = "-send"

\* sendToGroup's error
SendError(reply) ==
    IF reply.neterr THEN <<"connection refused">>
    ELSE IF reply.status >= 300 THEN <<"unexpected status: " \o ToString(reply.status)>>
    ELSE NoError

\* an event file appears in the directory
AddEventFile ==
    /\ dg.at = "idle" /\ Len(eventDir) < MaxEventFiles
    /\ \E f \in EventEntries : eventDir' = Append(eventDir, f)
    /\ UNCHANGED <<publisher, last, called, dg, requests>>

\* run, up to the test of the arguments
CallRun ==
    /\ dg.at = "idle" /\ pc = "idle"
    /\ \E args \in ArgLists, inRepo \in BOOLEAN, today \in RunDays, chatIDs \in ChatIDLists :
         LET walk == WalkDir(eventDir, 1, CurrentISOWeek(today),
                             [events |-> <<>>, opened |-> <<>>, err |-> NoError])
             start == [NoRun EXCEPT !.args = args, !.inRepo = inRepo, !.today = today,
                                    !.chatIDs = chatIDs, !.dir = eventDir]
         IN  dg' = IF ~inRepo
                   THEN [start EXCEPT !.at = "done",
                                      !.err = <<"openat ./content/evenements/: no such file or directory">>]
                   ELSE [start EXCEPT !.events = walk.events, !.opened = walk.opened,
                                      !.walkErr = walk.err,
                                      !.message = MessageOf(walk.events),
                                      !.chats = IF Sends(args) THEN chatIDs ELSE <<>>,
                                      !.at = IF Sends(args) /\ chatIDs # <<>> THEN "send" ELSE "done"]
    /\ UNCHANGED <<publisher, last, called, eventDir, requests>>

\* one turn of the loop over chatIDs
SendToGroup ==
    /\ dg.at = "send"
    /\ \E reply \in ChatReplies :
         /\ requests' = Append(requests, [chatID |-> Head(dg.chats), text |-> dg.message,
                                          reply |-> reply])
         /\ dg' = IF SendError(reply) # NoError
                  THEN [dg EXCEPT !.err = SendError(reply), !.at = "done"]
                  ELSE [dg EXCEPT !.chats = Tail(dg.chats),
                                  !.at = IF Tail(dg.chats) = <<>> THEN "done" ELSE "send"]
    /\ UNCHANGED <<publisher, last, called, eventDir>>

\* main is over
RunReturn ==
    /\ dg.at = "done"
    /\ dg' = NoRun
    /\ requests' = <<>>
    /\ UNCHANGED <<publisher, last, called, eventDir>>

NextDigest ==
    \/ AddEventFile
    \/ CallRun
    \/ SendToGroup
    \/ RunReturn

SpecDigest == Init /\ [][NextDigest]_vars

\* ================================================================ claims
Ops(tr, kinds) == {i \in 1..Len(tr) : tr[i].op \in kinds}

\* the operations that change the working tree or the repository, or talk
\* to the network
EffectOps == {"mkdir", "create", "write", "add", "check", "commit", "push", "post"}

InMarkdownReturn == pc = "md_ret" /\ ~ctx.DryRun

\* C1: in a publishEventMarkdown that is not a dry run, every staged-diff
\* check of the output file comes after a successful add of that file, and
\* the call returns alreadyPublished=true exactly when the check answered
\* "no changes" without an error.
C1_CheckOnlyAfterAdd ==
    /\ \A i \in Ops(trace, {"check"}) :
          \E j \in 1..(i - 1) :
              trace[j].op = "add" /\ trace[j].ok /\ trace[j].arg = trace[i].arg
    /\ InMarkdownReturn =>
          (md.alreadyPublished <=>
              \E i \in Ops(trace, {"check"}) : trace[i].ok /\ ~trace[i].changed)

C1_Witness ==
    /\ InMarkdownReturn
    /\ ctx.vcs = "git"
    /\ md.alreadyPublished
    /\ Ops(trace, {"add"}) # {}

\* C2: once the staged-diff check has answered "no changes", the call
\* returns alreadyPublished=true with a nil error and the runner is not
\* invoked with commit or push in that call.
C2_NoCommitWhenNoChanges ==
    (\E i \in Ops(trace, {"check"}) : trace[i].ok /\ ~trace[i].changed) =>
        /\ Ops(trace, {"commit", "push"}) = {}
        /\ pc # "md_commit"
        /\ md.alreadyPublished
        /\ md.err = NoError

C2_Witness ==
    /\ pc = "done"
    /\ ~ctx.DryRun
    /\ \E i \in Ops(trace, {"check"}) : trace[i].ok /\ ~trace[i].changed

\* the call about to return repeats the previous one: same arguments, no
\* edit of the template in between, and its add and check both ran
RepeatedRun ==
    /\ pc = "md_ret"
    /\ prev.set
    /\ ~prev.edited
    /\ prev.args = MdArgs(ctx)
    /\ \E i \in Ops(trace, {"check"}) : trace[i].ok

\* C3 (amended): after a publishEventMarkdown that went through with git,
\* the same call made again with no edit in between returns
\* alreadyPublished=true and attempts no commit; the two calls together make
\* one commit, or none when the first one was already published.
C3_SecondRunAlreadyPublished ==
    RepeatedRun =>
        /\ md.alreadyPublished
        /\ md.err = NoError
        /\ Ops(trace, {"commit"}) = {}
        /\ prev.commits = IF prev.alreadyPublished THEN 0 ELSE 1

C3_Witness ==
    /\ RepeatedRun
    /\ md.alreadyPublished
    /\ prev.commits = 1

\* C3 as claimed: the two calls together always make exactly one commit.
C3_ExactlyOneCommit ==
    RepeatedRun =>
        /\ md.alreadyPublished
        /\ prev.commits + Commits(trace) = 1

\* C4: a dry run of publishEvent or publishEventMarkdown has no effect: no
\* step of it changes the working tree or the repository, runs the runner
\* or the checker, or makes an HTTP request.
C4_DryRunHasNoEffect ==
    [][ (pc # "idle" /\ ctx.DryRun) =>
            /\ world' = world
            /\ Ops(trace', EffectOps) = {}
            /\ ~polled' ]_vars

C4_Witness ==
    /\ pc = "done"
    /\ ctx.entry = "publishEvent"
    /\ ctx.DryRun
    /\ result = NoError
    /\ Ops(trace, {"simulate"}) # {}

\* C5: publishEvent asked to publish on Facebook with an empty token
\* returns "FACEBOOK_PAGE_ACCESS_TOKEN not set" having read or written no
\* file, run no git command and made no HTTP request, dry run or not.
C5_TokenCheckedFirst ==
    (ctx.entry = "publishEvent" /\ ctx.PublishFacebook /\ ctx.PageAccessToken = ""
        /\ pc # "pe_start") =>
        /\ pc = "done"
        /\ result = <<"FACEBOOK_PAGE_ACCESS_TOKEN not set">>
        /\ trace = <<>>
        /\ ~polled
        /\ md = NoMd

C5_Witness ==
    /\ pc = "done"
    /\ ctx.entry = "publishEvent"
    /\ ctx.PublishFacebook
    /\ ctx.PageAccessToken = ""
    /\ ~ctx.DryRun
    /\ result # NoError

\* the post attempts of the call, in order
IsPost(e) == e.op \in {"post", "simulate"}
Posts == SelectSeq(trace, IsPost)
Names(events) == [i \in 1..Len(events) |-> events[i].arg]
IsFailure(e) == ~e.ok
Registry == {"forro-a-strasbourg", "forro-stras"}
InRegistry(n) == n \in Registry

\* publishEvent has gone through its posting stage and returned
PostingDone ==
    /\ pc = "done"
    /\ ctx.entry = "publishEvent"
    /\ ctx.PublishFacebook
    /\ ctx.PageAccessToken # ""
    /\ md # NoMd
    /\ md.err = NoError
    /\ waitErr = NoError

\* C6 (amended): publishEvent returns an error from the posting stage
\* exactly when at least one attempted post failed, whether or not other
\* pages were posted successfully.
C6_ErrorIffSomePostFailed ==
    PostingDone =>
        (result # NoError <=> \E i \in 1..Len(Posts) : ~Posts[i].ok)

C6_Witness ==
    /\ PostingDone
    /\ \E i \in 1..Len(Posts) : Posts[i].ok
    /\ \E i \in 1..Len(Posts) : ~Posts[i].ok
    /\ result # NoError

\* C6 as claimed: an error from the posting stage only if every attempted
\* post failed.
C6_ErrorOnlyIfAllFailed ==
    (PostingDone /\ result # NoError) =>
        \A i \in 1..Len(Posts) : ~Posts[i].ok

\* C7: the posting stage attempts one post for each selected name that is
\* in the registry, in selection order, whatever the earlier attempts gave,
\* and the error returned lists each page whose post failed.
C7_NoFailFast ==
    PostingDone =>
        /\ Names(Posts) = SelectSeq(SelectedPages(ctx.FacebookPages), InRegistry)
        /\ result = IF SelectSeq(Posts, IsFailure) = <<>> THEN NoError
                    ELSE <<"Facebook publishing errors">> \o Names(SelectSeq(Posts, IsFailure))

C7_Witness ==
    /\ PostingDone
    /\ Len(Posts) = 2
    /\ ~Posts[1].ok

\* C8: a name that is not in the registry gets no post attempt and is not
\* an error: the known names of the selection are still posted to, and
\* publishEvent returns nil when all those posts succeed, also when the
\* selection has no known name at all.
C8_UnknownPagesSkipped ==
    PostingDone =>
        /\ \A i \in 1..Len(Posts) : Posts[i].arg \in Registry
        /\ \A k \in 1..Len(SelectedPages(ctx.FacebookPages)) :
              SelectedPages(ctx.FacebookPages)[k] \in Registry =>
                  \E i \in 1..Len(Posts) : Posts[i].arg = SelectedPages(ctx.FacebookPages)[k]
        /\ (\A i \in 1..Len(Posts) : Posts[i].ok) => result = NoError

C8_Witness ==
    /\ PostingDone
    /\ ~ctx.DryRun
    /\ ctx.FacebookPages = <<"forro-a-strasbourg", ",", "unknown-page">>
    /\ Len(Posts) = 1
    /\ result = NoError

\* C9: in a publishEvent that is not a dry run, a post is attempted only
\* after the Markdown Publisher returned without error and the poller
\* returned success; when the poller times out publishEvent returns an
\* error and no post has been attempted.
C9_NoPostBeforePageIsLive ==
    (ctx.entry = "publishEvent" /\ ~ctx.DryRun) =>
        /\ Len(Posts) > 0 =>
              /\ md # NoMd
              /\ md.err = NoError
              /\ polled
              /\ waitErr = NoError
              /\ pc \in {"pe_post", "done"}
        /\ (pc = "done" /\ waitErr # NoError) =>
              /\ result # NoError
              /\ Len(Posts) = 0

C9_Witness ==
    /\ pc = "done"
    /\ ctx.entry = "publishEvent"
    /\ ~ctx.DryRun
    /\ waitErr # NoError
    /\ result # NoError

Contains(err, msg) == \E i \in 1..Len(err) : err[i] = msg

\* publishEvent was given a template that is not there, and is past its
\* validations
MissingTemplateCall ==
    /\ ctx.entry = "publishEvent"
    /\ pc # "pe_start"
    /\ ~tmplFiles[ctx.TemplatePath].exists

\* nothing but the os.Stat of the template has happened
OnlyValidated ==
    /\ pc = "done"
    /\ md = NoMd
    /\ Ops(trace, EffectOps \cup {"parse", "simulate"}) = {}
    /\ ~polled

\* C10 (amended): when the template file does not exist publishEvent
\* returns at once, dry run or not, without calling the Markdown Publisher
\* and with no file, directory, git command, poll or post; the error
\* contains "error publishing event", unless publishing on Facebook was
\* asked for with an empty token, which is reported instead.
C10_MissingTemplateFailsFirst ==
    MissingTemplateCall =>
        /\ OnlyValidated
        /\ IF ctx.PublishFacebook /\ ctx.PageAccessToken = ""
           THEN result = <<"FACEBOOK_PAGE_ACCESS_TOKEN not set">>
           ELSE Contains(result, "error publishing event")

C10_Witness ==
    /\ MissingTemplateCall
    /\ ctx.DryRun
    /\ Contains(result, "error publishing event")
    /\ Ops(trace, {"stat"}) # {}

\* C10 as claimed: the error always contains "error publishing event".
C10_AlwaysPublishingError ==
    MissingTemplateCall =>
        /\ OnlyValidated
        /\ Contains(result, "error publishing event")

\* the version-control steps of the call in progress that failed
VcsOps == {"add", "check", "commit"}
FailedVcs(tr) == {i \in Ops(tr, VcsOps) : ~tr[i].ok}

\* C11: version-control errors are fatal and short-circuit.  After a failed
\* add neither the check nor the commit is run; after a failed check the
\* commit is not run; when add, check or commit failed, publishEventMarkdown
\* returns a non-nil error with alreadyPublished=false, and publishEvent
\* returns an error containing "error publishing event" without having
\* polled or posted.
C11_VcsErrorsAreFatal ==
    /\ \A i \in FailedVcs(trace) :
          /\ trace[i].op = "add" => Ops(trace, {"check", "commit"}) = {}
          /\ trace[i].op = "check" => Ops(trace, {"commit"}) = {}
          /\ i = Len(trace)
    /\ (FailedVcs(trace) # {} /\ pc = "md_ret") =>
          /\ md.err # NoError
          /\ ~md.alreadyPublished
    /\ (FailedVcs(trace) # {} /\ ctx.entry = "publishEvent") =>
          /\ pc \in {"md_ret", "done"}
          /\ ~polled
          /\ Ops(trace, {"post", "simulate"}) = {}
          /\ pc = "done" => Contains(result, "error publishing event")

C11_Witness ==
    /\ pc = "done"
    /\ ctx.entry = "publishEvent"
    /\ ctx.PublishFacebook
    /\ \E i \in FailedVcs(trace) : trace[i].op = "commit"
    /\ Contains(result, "git commit failed")

\* the call about to return repeats the previous one, which failed at a
\* version-control step, and nothing fails this time
RerunAfterFailure ==
    /\ pc = "md_ret"
    /\ prev.failed # ""
    /\ ~prev.edited
    /\ prev.args = MdArgs(ctx)
    /\ \A i \in 1..Len(trace) : trace[i].ok
    /\ ~Contains(md.err, "failed to get current working directory")

\* the output file is committed as rendered, and pushed by the program that
\* pushes
Published ==
    /\ outFiles[outputPath].exists
    /\ head[outputPath] = outFiles[outputPath]
    /\ PushEnabled(ctx.program) => remote[outputPath] = outFiles[outputPath]

\* C12: after a publishEventMarkdown that failed at add, at the staged-diff
\* check, at commit or at push, the same call made again without a fault
\* returns without error and leaves the output file committed, and pushed
\* where the program pushes.
C12_RerunCompletesPublication ==
    RerunAfterFailure => md.err = NoError /\ Published

OkCommits(tr) == {i \in Ops(tr, {"commit"}) : tr[i].ok}

TemplateFileName(templatePath) ==
    IF templatePath = TplOkivu THEN "okivu.md.template" ELSE "template.md"

\* C14: in a publishEventMarkdown that is not a dry run and whose
\* staged-diff check reports differences, the runner is invoked with commit
\* exactly once, right after the check, with the message "Add event for
\* {dateString} based on template {templateFileName}", templateFileName
\* being the base name of the template path; when the commit succeeds the
\* call returns a nil error and alreadyPublished=false.
C14_CommitOnceWithMessage ==
    /\ Cardinality(Ops(trace, {"commit"})) <= 1
    /\ \A i \in Ops(trace, {"commit"}) :
          /\ i > 1
          /\ trace[i - 1].op = "check" /\ trace[i - 1].ok /\ trace[i - 1].changed
          /\ trace[i].arg = "Add event for " \o ctx.DateStr \o " based on template "
                                \o TemplateFileName(ctx.TemplatePath)
    /\ (pc = "md_ret" /\ \E j \in Ops(trace, {"check"}) : trace[j].ok /\ trace[j].changed) =>
          /\ Cardinality(Ops(trace, {"commit"})) = 1
          /\ OkCommits(trace) # {} => md.err = NoError /\ ~md.alreadyPublished

C14_Witness ==
    /\ pc = "md_ret"
    /\ \E i \in OkCommits(trace) :
          trace[i].arg = "Add event for 23/12/2024 based on template okivu.md.template"
    /\ ~md.alreadyPublished

\* C15: waitForEventPage returns nil only when an attempt received status
\* 200, and it returns at the first such response without sleeping again;
\* any other status (204, 404, 500) and a failed request never count as
\* success: the loop goes on after them.
C15_NilOnlyOn200 ==
    [][ /\ (pc' = "wait_ret" /\ waitErr' = NoError) => got'.last = 200
        /\ pc' = "wait" => got'.last # 200
        /\ (pc = "wait" /\ got'.last = 200) =>
              /\ pc' = "wait_ret"
              /\ waitErr' = NoError
              /\ now' - now \in GetDurations ]_vars

C15_Witness ==
    /\ pc = "wait_ret"
    /\ ctx.entry = "waitForEventPage"
    /\ waitErr = NoError
    /\ got.last = 200
    /\ interval = 3
    /\ now >= 3

TimedOut == <<"timed out waiting for the event page to become available">>

\* C16: the poller terminates.  Provided every GET returns and the clock
\* advances, a waitForEventPage that is running eventually returns; when it
\* returns without having received status 200, it returns the timeout
\* error, and the deadline start+timeout has passed.
C16_PollerTerminates ==
    /\ [](pc = "wait" => <>(pc = "wait_ret"))
    /\ []((pc = "wait_ret" /\ got.last # 200) => (waitErr = TimedOut /\ now >= deadline))

C16_Witness ==
    /\ pc = "wait_ret"
    /\ ctx.entry = "waitForEventPage"
    /\ waitErr = TimedOut
    /\ got.last \in {404, 500}
    /\ deadline = 5

\* the longest a GET takes
MaxGetDuration == CHOOSE d \in GetDurations : \A e \in GetDurations : e <= d

\* the deadline, or the start of the call (time 0) when the timeout is negative
DeadlineFromStart == IF deadline < 0 THEN 0 ELSE deadline

\* C17 (amended): every poll attempt starts before the deadline
\* start+timeout, so waitForEventPage returns less than one attempt and one
\* sleep after the deadline: a nil return comes less than one GET after it,
\* the timeout error less than one GET plus one interval after it.
C17_OvershootBelowOneTurn ==
    /\ pc \in {"wait", "wait_ret"} => now < DeadlineFromStart + MaxGetDuration + interval
    /\ (pc = "wait_ret" /\ waitErr = NoError) => now < DeadlineFromStart + MaxGetDuration
    /\ (pc = "wait_ret" /\ ~polled) => now <= DeadlineFromStart

C17_Witness ==
    /\ pc = "wait_ret"
    /\ ctx.entry = "waitForEventPage"
    /\ waitErr = TimedOut
    /\ interval = 3
    /\ now > deadline

\* C17 as claimed: waitForEventPage returns no later than start+timeout.
C17_ReturnsByDeadline ==
    pc = "wait_ret" => now <= deadline

\* C18: a failed request does not end waitForEventPage: the attempt counts
\* as "not yet available", the poller sleeps `interval` and is still
\* running, and a later attempt that receives 200 makes the call return nil.
C18_NetworkErrorIsRetried ==
    [][ /\ (pc = "wait" /\ got'.last = 0 /\ <<got, now>>' # <<got, now>>) =>
              /\ pc' = "wait"
              /\ waitErr' = NoError
              /\ now' >= now + interval
        /\ (pc = "wait" /\ got.neterr /\ got'.last = 200) =>
              /\ pc' = "wait_ret"
              /\ waitErr' = NoError ]_vars

C18_Witness ==
    /\ pc = "wait_ret"
    /\ ctx.entry = "waitForEventPage"
    /\ got.neterr
    /\ got.last = 200
    /\ waitErr = NoError
    /\ now > 0

\* the output file was written in full by the call in progress, the
\* extraction has been made, and the file has no front matter the extractor
\* accepts
FreshOutputWithoutFrontMatter ==
    /\ ~ctx.DryRun
    /\ \E i \in Ops(trace, {"write"}) : trace[i].ok
    /\ pc # "md_extract"
    /\ extractFrontMatter(outFiles[outputPath]).err # NoError

\* C19: when the output file just written carries no valid front matter,
\* publishEventMarkdown returns a non-nil error with alreadyPublished=false,
\* no version-control command (add, check, commit, push) is run, and the
\* written file stays in place as rendered.
C19_FrontMatterFailureIsFatal ==
    FreshOutputWithoutFrontMatter =>
        /\ pc \in {"md_ret", "done"}
        /\ Contains(md.err, "failed to extract front matter")
        /\ ~md.alreadyPublished
        /\ Ops(trace, {"add", "check", "commit", "push"}) = {}
        /\ trace[Len(trace)].op = "write"
        /\ outFiles[outputPath] = File(Render(tmplFiles[ctx.TemplatePath].lines, md.data))
        /\ index[outputPath] # outFiles[outputPath]

C19_Witness ==
    /\ FreshOutputWithoutFrontMatter
    /\ pc = "md_ret"
    /\ outFiles[outputPath].exists
    /\ Contains(md.err, "no front matter found")

\* the staged-diff checks git made in the call in progress
GitChecks == IF ctx.vcs = "git" THEN Ops(trace, {"check"}) ELSE {}

\* C20: runGitCheckChanges maps the outcome of git diff totally and
\* exclusively: exit code 0 gives (false, nil), exit code 1 gives (true,
\* nil), any other exit code or a command that did not run gives (false,
\* error); it never gives hasChanges=true together with an error.
C20_CheckOutcomeMapping ==
    \A i \in GitChecks :
        /\ trace[i].code = 0 => (~trace[i].changed /\ trace[i].ok)
        /\ trace[i].code = 1 => (trace[i].changed /\ trace[i].ok)
        /\ trace[i].code \notin {0, 1} => (~trace[i].changed /\ ~trace[i].ok)
        /\ ~(trace[i].changed /\ ~trace[i].ok)

C20_Witness ==
    /\ pc = "md_ret"
    /\ \E i \in GitChecks : trace[i].code = 128 /\ ~trace[i].ok
    /\ Contains(md.err, "error running git diff")

\* the last event before position i that is not a check (0 if none)
RECURSIVE LastCommand(_, _)
LastCommand(tr, i) ==
    IF i <= 1 THEN 0
    ELSE IF tr[i - 1].op # "check" THEN i - 1
    ELSE LastCommand(tr, i - 1)

\* the content the file was last given before position i ("" if none)
RECURSIVE WrittenBefore(_, _)
WrittenBefore(tr, i) ==
    IF i <= 1 THEN ""
    ELSE IF tr[i - 1].op = "edit" THEN tr[i - 1].arg
    ELSE WrittenBefore(tr, i - 1)

\* the content staged before position i ("" if none)
RECURSIVE StagedBefore(_, _)
StagedBefore(tr, i) ==
    IF i <= 1 THEN ""
    ELSE IF tr[i - 1].op = "add" /\ tr[i - 1].ok THEN WrittenBefore(tr, i - 1)
    ELSE StagedBefore(tr, i - 1)

\* the content last committed before position i ("" if none)
RECURSIVE CommittedBefore(_, _)
CommittedBefore(tr, i) ==
    IF i <= 1 THEN ""
    ELSE IF tr[i - 1].op = "commit" /\ tr[i - 1].ok THEN StagedBefore(tr, i - 1)
    ELSE CommittedBefore(tr, i - 1)

\* the check at position i comes right after a commit
RightAfterCommit(tr, i) ==
    LastCommand(tr, i) > 0 /\ tr[LastCommand(tr, i)].op = "commit" /\ tr[LastCommand(tr, i)].ok

\* the check at position i comes right after an add that staged an edit
\* which is not committed: the file differs from its last committed content
RightAfterStagedEdit(tr, i) ==
    /\ LastCommand(tr, i) > 0
    /\ tr[LastCommand(tr, i)].op = "add" /\ tr[LastCommand(tr, i)].ok
    /\ WrittenBefore(tr, i) # CommittedBefore(tr, i)

\* C21: over every sequence of edits, adds and commits of a file,
\* runGitCheckChanges returns (false, nil) right after a commit with no
\* further edit, and (true, nil) right after an add that staged an edit not
\* yet committed.
C21_CheckFollowsRepository ==
    \A i \in Ops(trace, {"check"}) :
        /\ RightAfterCommit(trace, i) => (~trace[i].changed /\ trace[i].ok)
        /\ RightAfterStagedEdit(trace, i) => (trace[i].changed /\ trace[i].ok)

C21_Witness ==
    /\ Len(trace) = 6
    /\ trace[3].op = "commit" /\ trace[3].ok
    /\ trace[4].op = "edit"
    /\ trace[5].op = "add" /\ trace[5].ok
    /\ trace[6].op = "check" /\ trace[6].changed /\ trace[6].ok

\* the X of a template file name X.md.template, and the YYMMDD of the dates,
\* written out
StemOfMdTemplate(templatePath) ==
    CASE templatePath.file = <<"okivu", ".md", ".template">> -> "okivu"
      [] templatePath.file = <<"pachamamas", ".md", ".template">> -> "pachamamas"
      [] templatePath.file = <<"test", ".md", ".template">> -> "test"
      [] templatePath.file = <<"stage", ".md", ".md", ".template">> -> "stage.md"
      [] OTHER -> "?"
YYMMDDOf(d) ==
    CASE d = [y |-> 2024, m |-> 12, d |-> 23] -> "241223"
      [] d = [y |-> 2024, m |-> 11, d |-> 29] -> "241129"
      [] d = [y |-> 2005, m |-> 3, d |-> 9] -> "050309"
      [] d = [y |-> 2025, m |-> 1, d |-> 7] -> "250107"
      [] OTHER -> "?"

\* publishEventMarkdown has computed its paths for a template named X.md.template
NamedMdTemplateCall ==
    /\ ctx.entry = "publishEventMarkdown"
    /\ md # NoMd
    /\ StemOfMdTemplate(ctx.TemplatePath) # "?"

\* C22: for a template file named X.md.template and a date D,
\* publishEventMarkdown computes the output path
\* content/evenements/{YYMMDD}-X.md and the event URL
\* https://forrostrasbourg.fr/evenements/{YYMMDD}-X/, whatever the
\* directory of the template, in a dry run or not; a call that returns
\* without error returns that path, and every return carries that URL.
C22_PathAndUrlFromDateAndName ==
    NamedMdTemplateCall =>
        LET slug == YYMMDDOf(ctx.Date) \o "-" \o StemOfMdTemplate(ctx.TemplatePath) IN
        /\ md.eventURL = "https://forrostrasbourg.fr/evenements/" \o slug \o "/"
        /\ md.outputPath \in {"content/evenements/" \o slug \o ".md", ""}
        /\ md.err = NoError => md.outputPath = "content/evenements/" \o slug \o ".md"

C22_Witness ==
    /\ NamedMdTemplateCall
    /\ pc = "md_ret"
    /\ ~ctx.DryRun
    /\ ctx.TemplatePath = TplDoubleMd
    /\ md.err = NoError
    /\ md.outputPath = "content/evenements/050309-stage.md.md"
    /\ md.eventURL = "https://forrostrasbourg.fr/evenements/050309-stage.md/"

\* the positions of the delimiter lines of a file, and its k-th one
DelimiterLines(lines) == {i \in 1..Len(lines) : lines[i].kind = "delim"}
FirstDelimiter(lines) ==
    CHOOSE i \in DelimiterLines(lines) : \A j \in DelimiterLines(lines) : i <= j
SecondDelimiter(lines) ==
    CHOOSE i \in DelimiterLines(lines) \ {FirstDelimiter(lines)} :
        \A j \in DelimiterLines(lines) \ {FirstDelimiter(lines)} : i <= j

\* the front-matter block of a template: the lines between its first two
\* delimiter lines, as written
BlockOf(lines) ==
    IF Cardinality(DelimiterLines(lines)) < 2 THEN <<>>
    ELSE SubSeq(lines, FirstDelimiter(lines) + 1, SecondDelimiter(lines) - 1)

\* the block holds `key` at its top level, i.e. at the indentation of its
\* first line, and the value it holds there
TopLevel(block, key) ==
    {i \in 1..Len(block) :
        block[i].kind = "kv" /\ block[i].key = key /\ block[i].indent = block[1].indent}
Holds(block, key) == Cardinality(TopLevel(block, key)) = 1
Held(block, key) == block[CHOOSE i \in TopLevel(block, key) : TRUE].val

NoActions(lines) == \A i \in 1..Len(lines) : lines[i].kind # "action"

\* a publishEventMarkdown, not a dry run, is returning without error for a
\* template without actions whose block holds a title, a place and a city
RoundTrip ==
    /\ pc = "md_ret"
    /\ ~ctx.DryRun
    /\ md.err = NoError
    /\ NoActions(tmplFiles[ctx.TemplatePath].lines)
    /\ \A key \in {"title", "place", "city"} :
          Holds(BlockOf(tmplFiles[ctx.TemplatePath].lines), key)

\* C23: round trip.  For a template without actions whose front-matter
\* block holds title T, place P and city C, a publishEventMarkdown that is
\* not a dry run and succeeds returns FrontMatterData{T, P, C}: extracting
\* the front matter of the rendered output gives back the template's values.
C23_RoundTrip ==
    RoundTrip =>
        LET block == BlockOf(tmplFiles[ctx.TemplatePath].lines) IN
        md.fmData = [Title |-> Held(block, "title"), Place |-> Held(block, "place"),
                     City |-> Held(block, "city")]

C23_Witness ==
    /\ RoundTrip
    /\ BlockOf(tmplFiles[ctx.TemplatePath].lines)[1].indent = 2
    /\ md.fmData = [Title |-> "Test Event", Place |-> "Test Place", City |-> "Test City"]
    /\ \E i \in Ops(trace, {"commit"}) : trace[i].ok

\* extractFrontMatter has been called on the test file
Extracted == pc = "done" /\ ctx.entry = "extractFrontMatter" /\ outFiles[TestFile].exists
TestLines == outFiles[TestFile].lines

\* C24: extractFrontMatter returns "no front matter found" for every file
\* without a pair of delimiter lines (none at all, or an opening one that is
\* never closed), and "failed to parse front matter" when the block between
\* the pair does not decode.
C24_ErrorsByDelimiterPair ==
    Extracted =>
        /\ Cardinality(DelimiterLines(TestLines)) < 2 =>
              md.err = <<"no front matter found">>
        /\ (Cardinality(DelimiterLines(TestLines)) >= 2
              /\ ~EmptyJoin(BlockOf(TestLines)) /\ ~YamlDecodes(BlockOf(TestLines))) =>
              md.err = <<"failed to parse front matter">>

\* what decoding a block gives: the record and the error
Decoded(block) ==
    IF EmptyJoin(block)
    THEN [fm |-> ZeroFrontMatter, err |-> <<"no front matter found">>]
    ELSE IF ~YamlDecodes(block)
    THEN [fm |-> ZeroFrontMatter, err |-> <<"failed to parse front matter">>]
    ELSE [fm |-> [Title |-> YamlField(block, "title"), Place |-> YamlField(block, "place"),
                  City |-> YamlField(block, "city")],
          err |-> NoError]

\* C25: the scan of extractFrontMatter is a two-state machine.  On a file
\* with two delimiter lines or more, the record and the error are those of
\* the lines between the first and the second delimiter line, in order:
\* no line before the first one is collected, and no line after the second
\* one (well-formed or not, further delimiter lines included) has any
\* influence.
C25_OnlyFirstBlockCounts ==
    (Extracted /\ Cardinality(DelimiterLines(TestLines)) >= 2) =>
        /\ md.fmData = Decoded(BlockOf(TestLines)).fm
        /\ md.err = Decoded(BlockOf(TestLines)).err

C25_Witness ==
    /\ Extracted
    /\ TestLines = <<Delim, KV("title", "Test Event"), Indented(Delim, 2),
                     Text("title: [invalid yaml"), Delim>>
    /\ md.err = NoError
    /\ md.fmData.Title = "Test Event"

\* publishEventOnFacebook was called directly and has returned
FacebookReturned == pc = "done" /\ ctx.entry = "publishEventOnFacebook"

\* the positions of "_" in an id
Underscores(id) == {i \in 1..Len(id) : id[i] = "_"}

\* the response has status 200 and its body's id is a non-empty string with
\* exactly one "_"
WellFormedPost(resp) ==
    /\ ~resp.neterr
    /\ resp.status = 200
    /\ resp.body.json /\ resp.body.hasId /\ resp.body.isString
    /\ resp.body.id # <<>>
    /\ Cardinality(Underscores(resp.body.id)) = 1

\* C26: publishEventOnFacebook with dryRun=false returns a post URL only
\* when the response has status 200 and the body's id is a non-empty string
\* that splits on "_" into exactly two parts P and Q; the URL is then
\* https://www.facebook.com/P/posts/Q.  For any other status, a missing,
\* empty or non-string id, or an id with no or several "_", it returns an
\* empty URL and a non-nil error.
C26_PostUrlFromId ==
    (FacebookReturned /\ ~ctx.DryRun) =>
        IF WellFormedPost(fb.resp)
        THEN LET id == fb.resp.body.id
                 u == CHOOSE i \in Underscores(id) : TRUE
             IN  /\ result = NoError
                 /\ fb.url = "https://www.facebook.com/" \o Concat(SubSeq(id, 1, u - 1))
                                 \o "/posts/" \o Concat(SubSeq(id, u + 1, Len(id)))
        ELSE fb.url = "" /\ result # NoError

C26_Witness ==
    /\ FacebookReturned
    /\ ~ctx.DryRun
    /\ fb.resp.body.id = <<"351984064669408", "_", "122">>
    /\ fb.url = "https://www.facebook.com/351984064669408/posts/122"
    /\ result = NoError

\* C27: publishEventOnFacebook with dryRun=true succeeds for every input,
\* an empty page ID or token included: it returns
\* https://www.facebook.com/{pageID}/posts/SimulatedPostID and a nil error,
\* and makes no HTTP request.
C27_DryRunPostIsSimulated ==
    (FacebookReturned /\ ctx.DryRun) =>
        /\ result = NoError
        /\ fb.url = "https://www.facebook.com/" \o fb.pageID \o "/posts/SimulatedPostID"
        /\ Ops(trace, {"post"}) = {}
        /\ fb.resp = NoResponse

C27_Witness ==
    /\ FacebookReturned
    /\ ctx.DryRun
    /\ fb.pageID = ""
    /\ ctx.PageAccessToken = ""
    /\ fb.url = "https://www.facebook.com//posts/SimulatedPostID"
    /\ result = NoError

\* the target list of each FacebookPages string, written out
TargetsOf(facebookPages) ==
    CASE facebookPages = <<>> -> <<"forro-a-strasbourg", "forro-stras">>
      [] facebookPages = <<"all">> -> <<"forro-a-strasbourg", "forro-stras">>
      [] facebookPages = <<"forro-a-strasbourg">> -> <<"forro-a-strasbourg">>
      [] facebookPages = <<"forro-stras", ",", "forro-a-strasbourg">> ->
             <<"forro-stras", "forro-a-strasbourg">>
      [] facebookPages = <<"forro-a-strasbourg", ",", "unknown-page">> ->
             <<"forro-a-strasbourg", "unknown-page">>
      [] facebookPages = <<"all", ",", "forro-stras">> -> <<"all", "forro-stras">>
      [] facebookPages = <<"unknown-page">> -> <<"unknown-page">>
      [] OTHER -> <<"?">>

\* C28: page selection in publishEvent.  With FacebookPages empty or exactly
\* "all" the target list is the full registry, forro-a-strasbourg then
\* forro-stras; otherwise it is exactly the comma-separated names in the
\* given order.  The loop goes through the targets in that order and each
\* one is looked up in the registry: the posts made are those of the
\* registered targets gone through so far.
C28_PageSelection ==
    (ctx.entry = "publishEvent" /\ pc = "pe_post") =>
        LET targets == TargetsOf(ctx.FacebookPages)
            gone == Len(targets) - Len(pages)
        IN  /\ gone >= 0
            /\ pages = SubSeq(targets, gone + 1, Len(targets))
            /\ Names(Posts) = SelectSeq(SubSeq(targets, 1, gone), InRegistry)

C28_Witness ==
    /\ ctx.entry = "publishEvent"
    /\ pc = "pe_post"
    /\ ctx.FacebookPages = <<"all", ",", "forro-stras">>
    /\ pages = <<>>
    /\ Names(Posts) = <<"forro-stras">>

\* C29: when publishing on Facebook is not requested, publishEvent needs no
\* access token and makes no HTTP request: whatever the template, the date,
\* the dry-run flag, the token and the page selection, it does not fail for
\* want of a token, never polls and never posts, and returns nil once the
\* Markdown Publisher has returned without error.
C29_NoFacebookNoHttp ==
    (ctx.entry = "publishEvent" /\ ~ctx.PublishFacebook) =>
        /\ ~polled
        /\ Ops(trace, {"post", "simulate"}) = {}
        /\ pc \notin {"wait", "wait_ret", "pe_post"}
        /\ ~Contains(result, "FACEBOOK_PAGE_ACCESS_TOKEN not set")
        /\ (pc = "done" /\ md # NoMd /\ md.err = NoError) => result = NoError

C29_Witness ==
    /\ ctx.entry = "publishEvent"
    /\ ~ctx.PublishFacebook
    /\ ctx.PageAccessToken = ""
    /\ ctx.FacebookPages = <<"forro-a-strasbourg", ",", "unknown-page">>
    /\ ~ctx.DryRun
    /\ pc = "done"
    /\ result = NoError
    /\ \E i \in Ops(trace, {"commit"}) : trace[i].ok

\* the output path and event URL of the two templates, for 2024-12-23,
\* written out
PathFor(templatePath) ==
    IF templatePath = TplOkivu THEN "content/evenements/241223-okivu.md"
    ELSE "content/evenements/241223-template.md"
UrlFor(templatePath) ==
    IF templatePath = TplOkivu THEN "https://forrostrasbourg.fr/evenements/241223-okivu/"
    ELSE "https://forrostrasbourg.fr/evenements/241223-template/"

\* C30: publishEventMarkdown with dryRun=true returns a nil error for any
\* template path, whether or not the template file exists, together with the
\* computed output path, event URL and date strings; it never opens the
\* template.
C30_DryRunNeverFails ==
    (ctx.entry = "publishEventMarkdown" /\ ctx.DryRun /\ pc \in {"md_ret", "done"}) =>
        /\ md.err = NoError
        /\ result = NoError
        /\ md.outputPath = PathFor(ctx.TemplatePath)
        /\ md.eventURL = UrlFor(ctx.TemplatePath)
        /\ md.data = [Date |-> ctx.DateStr,
                      LongDate |-> IF ctx.Language = "fr" THEN "lundi 23 décembre"
                                   ELSE "monday 23 december",
                      LongDateCapitalized |-> IF ctx.Language = "fr" THEN "Lundi 23 décembre"
                                              ELSE "Monday 23 december"]
        /\ md.fmData = ZeroFrontMatter
        /\ ~md.alreadyPublished
        /\ Ops(trace, {"stat", "parse"}) = {}

C30_Witness ==
    /\ ctx.entry = "publishEventMarkdown"
    /\ ctx.DryRun
    /\ pc = "done"
    /\ ~tmplFiles[ctx.TemplatePath].exists
    /\ result = NoError
    /\ md.outputPath = "content/evenements/241223-template.md"
    /\ md.data.LongDateCapitalized = "Lundi 23 décembre"

\* ---------------------------------------------------------------- C31
\* the number of days from 1 January 2023, a Sunday, to a date of 2023 or 2024
DaysSince2023(d) ==
    LET len == <<31, IF d.y = 2024 THEN 29 ELSE 28, 31, 30, 31, 30, 31, 31, 30, 31, 30, 31>>
        before[m \in 1..12] == IF m = 1 THEN 0 ELSE before[m - 1] + len[m - 1]
    IN  (IF d.y = 2024 THEN 365 ELSE 0) + before[d.m] + (d.d - 1)

JoursDeLaSemaine == <<"dimanche", "lundi", "mardi", "mercredi", "jeudi", "vendredi", "samedi">>
DaysOfTheWeek == <<"sunday", "monday", "tuesday", "wednesday", "thursday", "friday", "saturday">>
Mois ==
    <<"janvier", "février", "mars", "avril", "mai", "juin", "juillet", "août", "septembre",
      "octobre", "novembre", "décembre">>
MonthsOfTheYear ==
    <<"january", "february", "march", "april", "may", "june", "july", "august", "september",
      "october", "november", "december">>

\* C31: for every date, getWeekdayName and getMonthName return the French
\* name when lang is "fr" and the English name for every other language code,
\* the empty one included, from a 7-entry table indexed by the day of the week
\* (0 = Sunday) and a 12-entry table indexed by month - 1; the index is always
\* within the table.
C31_NamesByLanguage ==
    /\ called.fn = "getWeekdayName" =>
         LET i == DaysSince2023(called.d) % 7 IN
         /\ i \in 0..(Len(JoursDeLaSemaine) - 1)
         /\ Len(JoursDeLaSemaine) = 7 /\ Len(DaysOfTheWeek) = 7
         /\ called.name = IF called.lang = "fr" THEN JoursDeLaSemaine[i + 1] ELSE DaysOfTheWeek[i + 1]
    /\ called.fn = "getMonthName" =>
         LET i == called.d.m - 1 IN
         /\ i \in 0..(Len(Mois) - 1)
         /\ Len(Mois) = 12 /\ Len(MonthsOfTheYear) = 12
         /\ called.name = IF called.lang = "fr" THEN Mois[i + 1] ELSE MonthsOfTheYear[i + 1]

\* a Saturday in February of a leap year, asked for with an empty language code
C31_Witness ==
    /\ called.fn = "getWeekdayName"
    /\ called.d = [y |-> 2024, m |-> 2, d |-> 3]
    /\ called.lang = ""
    /\ called.name = "saturday"

\* ---------------------------------------------------------------- C32
AsciiLower(b) == b >= 97 /\ b <= 122
AsciiUpper(b) == b >= 65 /\ b <= 90

\* C32: capitalizeFirstLetter returns "" for ""; for a string whose first
\* character is an ASCII letter it returns that letter in upper case followed
\* by the rest of the string unchanged; a string that is already capitalized
\* is returned unchanged, so capitalizing such a result again changes nothing.
C32_AsciiFirstLetter ==
    called.fn = "capitalizeFirstLetter" =>
        /\ called.s = <<>> => called.out = <<>>
        /\ (called.s # <<>> /\ (AsciiLower(called.s[1]) \/ AsciiUpper(called.s[1]))) =>
             /\ Len(called.out) = Len(called.s)
             /\ called.out[1] = IF AsciiLower(called.s[1]) THEN called.s[1] - 32 ELSE called.s[1]
             /\ \A i \in 2..Len(called.s) : called.out[i] = called.s[i]
             /\ AsciiUpper(called.s[1]) => called.out = called.s
             /\ capitalizeFirstLetter(called.out) = called.out

\* "hello world" becomes "Hello world"
C32_Witness ==
    /\ called.fn = "capitalizeFirstLetter"
    /\ called.s = <<104, 101, 108, 108, 111, 32, 119, 111, 114, 108, 100>>
    /\ called.out = <<72, 101, 108, 108, 111, 32, 119, 111, 114, 108, 100>>

\* ---------------------------------------------------------------- C33
\* the characters of a string: the code points its bytes decode to, with -1
\* for a byte that does not belong to a well-formed encoding
RECURSIVE Runes(_)
Runes(b) ==
    IF b = <<>> THEN <<>>
    ELSE IF b[1] < 128 THEN <<b[1]>> \o Runes(Tail(b))
    ELSE IF b[1] \in 194..223 /\ Len(b) >= 2 /\ b[2] \in 128..191
    THEN <<(b[1] - 192) * 64 + (b[2] - 128)>> \o Runes(SubSeq(b, 3, Len(b)))
    ELSE IF b[1] \in 224..239 /\ Len(b) >= 3 /\ b[2] \in 128..191 /\ b[3] \in 128..191
    THEN <<(b[1] - 224) * 4096 + (b[2] - 128) * 64 + (b[3] - 128)>> \o Runes(SubSeq(b, 4, Len(b)))
    ELSE <<-1>> \o Runes(Tail(b))

WellFormedString(b) == \A i \in 1..Len(Runes(b)) : Runes(b)[i] # -1

\* the upper-case form of the characters the strings are made of
UpperCharacter(r) == IF r = 233 THEN 201 ELSE IF AsciiLower(r) THEN r - 32 ELSE r

\* C33: for a string whose first character is encoded in more than one byte,
\* the result of capitalizeFirstLetter is the upper-case form of that whole
\* character followed by the remaining characters unchanged, a well-formed
\* string of the same length in characters.
C33_MultiByteFirstCharacter ==
    (called.fn = "capitalizeFirstLetter" /\ called.s # <<>> /\ called.s[1] >= 128) =>
        /\ WellFormedString(called.out)
        /\ Len(Runes(called.out)) = Len(Runes(called.s))
        /\ Runes(called.out)[1] = UpperCharacter(Runes(called.s)[1])
        /\ Tail(Runes(called.out)) = Tail(Runes(called.s))

\* ---------------------------------------------------------------- C34
\* the ISO year and week of the days of the model, from the calendar
WeekOf(d) ==
    CASE d.y = 2023 /\ d.m = 12 /\ d.d = 30 -> [year |-> 2023, week |-> 52]
      [] d.y = 2024 /\ d.m = 12 /\ d.d \in 23..29 -> [year |-> 2024, week |-> 52]
      [] d.y = 2024 /\ d.m = 12 /\ d.d \in 30..31 -> [year |-> 2025, week |-> 1]
      [] d.y = 2025 /\ d.m = 1 /\ d.d \in 1..5 -> [year |-> 2025, week |-> 1]

\* the day after a day the tool is run on
DayAfter(d) ==
    IF d.d = 31 THEN [y |-> d.y + 1, m |-> 1, d |-> 1] ELSE [d EXCEPT !.d = d.d + 1]

\* run has walked the directory
Walked == dg.at # "idle" /\ dg.inRepo

\* the i-th entry is an event file whose front matter decodes
IsEvent(i) ==
    /\ ~eventDir[i].isDir /\ eventDir[i].ext = ".md"
    /\ eventDir[i].opens /\ eventDir[i].found /\ eventDir[i].decodes
\* scanning the i-th entry raises an error
ScanFails(i) ==
    /\ ~eventDir[i].isDir /\ eventDir[i].ext = ".md"
    /\ ~(eventDir[i].opens /\ eventDir[i].found /\ eventDir[i].decodes)
\* the page of the i-th entry is in the digest
InDigest(i) ==
    \E k \in 1..Len(dg.events) :
        dg.events[k].URL =
            "https://forrostrasbourg.fr/evenements/" \o ToString(i) \o "-" \o eventDir[i].stem

\* C34 as stated: an event file is in the digest if and only if the ISO
\* (year, week) of its startDate equals the ISO (year, week) of the current
\* time at which the tool runs.
C34_InCurrentWeek ==
    Walked =>
        \A i \in 1..Len(eventDir) :
            IsEvent(i) => (InDigest(i) <=> WeekOf(eventDir[i].start) = WeekOf(dg.today))

\* C34, amended: an event file that the walk reaches, and whose page URL
\* parses, is in the digest if and only if the ISO (year, week) of its
\* startDate equals the ISO (year, week) of the UTC time 24 hours after the
\* time at which the tool runs; no other entry is in the digest.
C34_InWeekOfTomorrow ==
    Walked =>
        \A i \in 1..Len(eventDir) :
            InDigest(i) <=>
                /\ IsEvent(i)
                /\ \A j \in 1..(i - 1) : ~ScanFails(j)
                /\ eventDir[i].stem # "100%-forro"
                /\ WeekOf(eventDir[i].start) = WeekOf(DayAfter(dg.today))

\* run on Sunday 29 December 2024: the event of Friday 27 is left out and the
\* event of Monday 30 is in the digest
C34_Witness ==
    /\ Walked
    /\ dg.today = [y |-> 2024, m |-> 12, d |-> 29]
    /\ Len(eventDir) = 2
    /\ IsEvent(1) /\ eventDir[1].start.d = 27 /\ ~InDigest(1)
    /\ IsEvent(2) /\ eventDir[2].start.d = 30 /\ eventDir[2].start.y = 2024 /\ InDigest(2)
    /\ Len(dg.events) = 1
    /\ dg.events[1].WeekDay = "lundi" /\ dg.events[1].StartDay = 30

\* ---------------------------------------------------------------- C35
\* the first command-line argument is -send
FirstArgumentIsSend == dg.args # <<>> /\ Head(dg.args) = "-send"
\* dg.dir is the directory as it was when run was entered.
\* the message holds its two opening lines, a line for each event, and its
\* closing line
Rendered == Len(dg.message) = Len(dg.events) + 3

\* C35 as stated: the tool posts to the chat endpoint only when its first
\* command-line argument is -send; without it, run renders the digest and
\* returns nil without any HTTP request; it never writes to the event files.
C35_SendOnlyWhenAsked ==
    /\ requests # <<>> => FirstArgumentIsSend
    /\ (dg.at = "done" /\ ~FirstArgumentIsSend) =>
            (Rendered /\ dg.err = NoError /\ requests = <<>>)
    /\ dg.at # "idle" => eventDir = dg.dir

\* C35, amended: the tool posts to the chat endpoint only when its first
\* command-line argument is -send; without it, run makes no HTTP request and,
\* when the events directory can be opened, renders the digest and returns
\* nil; it never writes to the event files.
C35_SendOnlyWhenAskedInRepo ==
    /\ requests # <<>> => FirstArgumentIsSend
    /\ (dg.at = "done" /\ ~FirstArgumentIsSend) =>
            /\ requests = <<>>
            /\ dg.inRepo => (Rendered /\ dg.err = NoError)
    /\ dg.at # "idle" => eventDir = dg.dir

\* a run with the arguments "now -send", whose first argument is not -send,
\* with chats configured and an event in the digest: rendered, nothing posted
C35_Witness ==
    /\ dg.at = "done"
    /\ dg.args = <<"now", "-send">>
    /\ dg.chatIDs # <<>>
    /\ Len(dg.events) = 1
    /\ Rendered
    /\ requests = <<>>
    /\ dg.err = NoError

\* ---------------------------------------------------------------- C39
\* the first entry whose scan raises an error, 0 when there is none
FirstFailure ==
    IF \E i \in 1..Len(eventDir) : ScanFails(i)
    THEN CHOOSE i \in 1..Len(eventDir) : ScanFails(i) /\ \A j \in 1..(i - 1) : ~ScanFails(j)
    ELSE 0
\* the .md files among the first n entries, in order
RECURSIVE MdFilesUpTo(_)
MdFilesUpTo(n) ==
    IF n = 0 THEN <<>>
    ELSE IF ~eventDir[n].isDir /\ eventDir[n].ext = ".md" THEN Append(MdFilesUpTo(n - 1), n)
    ELSE MdFilesUpTo(n - 1)
\* the i-th entry is an event of the week the run looks for
Matches(i) ==
    /\ IsEvent(i) /\ eventDir[i].stem # "100%-forro"
    /\ WeekOf(eventDir[i].start) = WeekOf(DayAfter(dg.today))
\* a failed post ended the run
PostFailed ==
    /\ requests # <<>>
    /\ LET reply == requests[Len(requests)].reply IN reply.neterr \/ reply.status >= 300
\* the walk was stopped by an error, which run dropped: the files after the
\* failing one were not opened, the digest is rendered from the events before
\* it, and it is posted when -send is given
WalkErrorDiscarded ==
    /\ dg.walkErr # NoError
    /\ dg.opened = MdFilesUpTo(FirstFailure)
    /\ \A i \in 1..Len(eventDir) : InDigest(i) <=> (i < FirstFailure /\ Matches(i))
    /\ Rendered
    /\ \A k \in 1..Len(requests) : requests[k].text = dg.message
    /\ (dg.at = "done" /\ FirstArgumentIsSend /\ dg.chatIDs # <<>>) => requests # <<>>

\* C39 as stated: an error raised while scanning one event file stops the
\* directory walk but is discarded by run: run still renders the digest from
\* the events collected before the failing file, sends it when -send is
\* given, and returns nil.
C39_WalkErrorDiscardedAlwaysNil ==
    (Walked /\ FirstFailure # 0) =>
        /\ WalkErrorDiscarded
        /\ dg.at = "done" => dg.err = NoError

\* C39, amended: ... and returns nil unless posting the digest fails; the
\* error of the scan is never returned.
C39_WalkErrorDiscardedNilUnlessPostFails ==
    (Walked /\ FirstFailure # 0) =>
        /\ WalkErrorDiscarded
        /\ dg.at = "done" => (dg.err = NoError \/ PostFailed)
        /\ dg.err # dg.walkErr

\* an event of the week, then a file that cannot be decoded, then another
\* event of the week: the digest holds the first event only, was posted to
\* both chats, and run returned nil
C39_Witness ==
    /\ Walked /\ dg.at = "done"
    /\ Len(eventDir) = 3
    /\ FirstFailure = 2 /\ eventDir[2].stem = "broken"
    /\ dg.today = [y |-> 2024, m |-> 12, d |-> 29]
    /\ eventDir[1].start.d = 30 /\ IsEvent(1) /\ InDigest(1)
    /\ eventDir[3].start.d = 30 /\ IsEvent(3) /\ eventDir[3].stem = "okivu" /\ ~InDigest(3)
    /\ dg.opened = <<1, 2>>
    /\ Len(requests) = 2
    /\ dg.err = NoError

\* ---------------------------------------------------------------- C36
\* how many times a name occurs in a list of names
Count(names, n) == Cardinality({i \in 1..Len(names) : names[i] = n})

\* a publishEvent that is not a dry run and publishes on Facebook has
\* returned; the Markdown Publisher reported alreadyPublished and the page
\* was available
RepublishedAndAvailable ==
    /\ pc = "done"
    /\ ctx.entry = "publishEvent"
    /\ ~ctx.DryRun
    /\ ctx.PublishFacebook
    /\ md # NoMd /\ md.err = NoError
    /\ md.alreadyPublished
    /\ waitErr = NoError

\* C36: the posting stage does not depend on alreadyPublished.  In a
\* publishEvent that is not a dry run and publishes on Facebook, when the
\* Markdown Publisher reports alreadyPublished = true and the page is
\* available, publishEvent has polled and posts to every resolved page; so
\* when the run before was the same publish, each page has been posted to
\* twice.
C36_PostsAgainWhenAlreadyPublished ==
    RepublishedAndAvailable =>
        LET resolved == SelectSeq(TargetsOf(ctx.FacebookPages), InRegistry) IN
        /\ polled
        /\ Names(Posts) = resolved
        /\ \A i \in 1..Len(Posts) : Posts[i].op = "post"
        /\ (last.req = ctx /\ last.available) =>
              \A i \in 1..Len(resolved) :
                  Count(last.posts, resolved[i]) + Count(Names(Posts), resolved[i]) = 2

\* the same publish to all pages run twice: nothing new to commit the second
\* time, and both pages posted to in both runs
C36_Witness ==
    /\ RepublishedAndAvailable
    /\ ctx.FacebookPages = <<"all">>
    /\ last.req = ctx
    /\ last.available
    /\ last.posts = <<"forro-a-strasbourg", "forro-stras">>
    /\ Names(Posts) = <<"forro-a-strasbourg", "forro-stras">>
    /\ Ops(trace, {"commit"}) = {}

\* ---------------------------------------------------------------- C37
\* a dry run of publishEvent that publishes on Facebook, with a token
DryRunForFacebook ==
    /\ ctx.entry = "publishEvent"
    /\ ctx.DryRun
    /\ ctx.PublishFacebook
    /\ ctx.PageAccessToken # ""

\* the poller is not called; the Social Post Publisher is called once for
\* each resolved page, simulating, with the zero FrontMatterData that
\* publishEventMarkdown returned; the call returns nil
SimulatedOncePerPage ==
    /\ ~polled
    /\ pc \notin {"wait", "wait_ret"}
    /\ \A i \in 1..Len(Posts) : Posts[i].op = "simulate"
    /\ pc = "pe_post" => md.fmData = [Title |-> "", Place |-> "", City |-> ""]
    /\ pc = "done" =>
          /\ result = NoError
          /\ Names(Posts) = SelectSeq(TargetsOf(ctx.FacebookPages), InRegistry)
          /\ md.fmData = [Title |-> "", Place |-> "", City |-> ""]
          /\ Ops(trace, {"parse", "create", "write"}) = {}

\* C37 as stated: in a dry-run publishEvent with external publishing
\* requested and a token present, the availability poller is never called,
\* the Social Post Publisher is called once per resolved page with
\* dryRun = true, the FrontMatterData passed to it is the zero value, and the
\* call returns nil.
C37_DryRunSimulatesPosts == DryRunForFacebook => SimulatedOncePerPage

\* C37, amended: the same, for a template file that exists.
C37_DryRunSimulatesPostsOfTemplate ==
    (DryRunForFacebook /\ tmplFiles[ctx.TemplatePath].exists) => SimulatedOncePerPage

\* a dry run for "forro-a-strasbourg,unknown-page": one simulated post
C37_Witness ==
    /\ DryRunForFacebook
    /\ pc = "done"
    /\ ctx.FacebookPages = <<"forro-a-strasbourg", ",", "unknown-page">>
    /\ Names(Posts) = <<"forro-a-strasbourg">>
    /\ Posts[1].op = "simulate"
    /\ md.fmData.Title = ""
    /\ tmplFiles[ctx.TemplatePath] = File(TemplateV1)
    /\ result = NoError

\* ---------------------------------------------------------------- C38
\* waitForEventPage is entered at time 0, so its deadline is its timeout.
\* C38: waitForEventPage with a timeout that is zero or negative makes no
\* poll attempt at all and returns the timeout error at once, whatever the
\* target would answer.
C38_NoAttemptWithoutTime ==
    (ctx.entry = "waitForEventPage" /\ deadline <= 0) =>
        /\ ~polled
        /\ got = NoGet
        /\ now = 0
        /\ pc \in {"wait_ret", "done"} => waitErr = TimedOut
        /\ pc = "done" => result = TimedOut

\* a call with a negative timeout has returned the timeout error
C38_Witness ==
    /\ ctx.entry = "waitForEventPage"
    /\ deadline = -1
    /\ pc = "done"
    /\ result = TimedOut
    /\ ~polled

====
